---- MODULE Spec2Model ----
(***************************************************************************)
(* A model of the Recruitee MCP server: the HTTP gates of src/utils/auth.py *)
(* as installed by src/app.py, the TTL caches of the lookup tools and the   *)
(* filter compiler of search_candidates.                                    *)
(*                                                                          *)
(* Python values.  A str is a tuple of one-character strings, a list is a   *)
(* tuple, and an Optional value is a set of at most one element: None is    *)
(* the empty set and a present value v is {v}.                              *)
(***************************************************************************)
EXTENDS Integers, Sequences, FiniteSets, TLC

VARIABLES
    transport,      \* --transport of the launch
    pathArg,        \* --path of the launch (Optional str)
    env,            \* the process environment read by the gates
    storage,        \* limiter._limiter.storage: hits counted per client address
    expirations,    \* limiter._limiter.storage: window end per client address
    clock,          \* time.time(), in seconds
    resp,           \* response to the latest HTTP request
    subCount,       \* history: form submissions made so far, per address
    firstSub,       \* history: clock of the first form submission, per address
    matched         \* history: the latest request was an unthrottled form
                    \* submission carrying the configured username and password

httpVars == <<transport, pathArg, env, storage, expirations, clock, resp,
              subCount, firstSub, matched>>

VARIABLES
    cache,          \* the alru_cache entry of each fetch function
    inflight,       \* upstream GETs in flight, per fetch function
    upstreamCalls,  \* upstream GETs issued so far, per fetch function
    waiting,        \* the calls awaiting each entry's future: their start times
    nCalls,         \* tool invocations made so far
    call,           \* history: what the latest invocation found in the cache
    ret,            \* history: how the latest invocation to return was served
    stored,         \* history: per fetch function, its latest stored result
    lastRet,        \* history: per kind of list, the latest successful return
    prevRet         \* history: per kind of list, the successful return before it

cacheVars == <<cache, inflight, upstreamCalls, waiting, nCalls, call, ret, stored,
               lastRet, prevRet>>

VARIABLES
    zone,           \* the process's local UTC offset, in seconds
    args,           \* the fields the caller has put in search_filter, in order
    search_filter,  \* the CandidateSearchFilter built from them
    compiled,       \* what search_candidates made of it
    sent            \* how the tool call ended and the request it sent

filterVars == <<zone, args, search_filter, compiled, sent>>

VARIABLES
    subs,           \* the form submissions in progress: where each coroutine is
    remote,         \* the remote API: its answer to a GET of each path
    toolOut,        \* the latest tool call: its arguments and how it ended
    BASE_DEPLOY_URL,\* the base URL read from the environment (Optional str)
    files,          \* the documents directory: the content of each file
    issued,         \* history: the URLs markdown_to_url has returned
    accepted        \* history: the Accept header of the latest request, as
                    \* sent and as received behind the middlewares

docVars == <<BASE_DEPLOY_URL, files, issued>>

otherVars == <<subs, remote, toolOut, docVars, accepted>>

vars == <<httpVars, cacheVars, filterVars, otherVars>>

-----------------------------------------------------------------------------
(* Python built-ins used by the code *)

None == {}
Some(v) == {v}
Get(o) == CHOOSE v \in o : TRUE

\* bool(x) of an Optional str or list: neither None nor empty
Truthy(o) == o # None /\ Get(o) # <<>>

\* s.startswith(p)
StartsWith(s, p) == Len(s) >= Len(p) /\ SubSeq(s, 1, Len(p)) = p

\* s.split(sep) for a one-character sep: every occurrence separates, so that
\* adjacent separators yield empty strings
RECURSIVE Split(_, _)
Split(s, sep) ==
    IF \A i \in 1..Len(s) : s[i] # sep
    THEN <<s>>
    ELSE LET i == CHOOSE k \in 1..Len(s) :
                      s[k] = sep /\ \A j \in 1..(k-1) : s[j] # sep
         IN <<SubSeq(s, 1, i-1)>> \o Split(SubSeq(s, i+1, Len(s)), sep)

Whitespace == {" ", "\t", "\n", "\r"}

\* s.strip()
RECURSIVE LStrip(_)
LStrip(s) == IF s # <<>> /\ Head(s) \in Whitespace THEN LStrip(Tail(s)) ELSE s
RECURSIVE RStrip(_)
RStrip(s) ==
    IF s # <<>> /\ s[Len(s)] \in Whitespace
    THEN RStrip(SubSeq(s, 1, Len(s)-1)) ELSE s
Strip(s) == RStrip(LStrip(s))

\* html.escape(s), quote=True
EscapeChar(c) ==
    CASE c = "&"  -> <<"&", "a", "m", "p", ";">>
      [] c = "<"  -> <<"&", "l", "t", ";">>
      [] c = ">"  -> <<"&", "g", "t", ";">>
      [] c = "\"" -> <<"&", "q", "u", "o", "t", ";">>
      [] c = "'"  -> <<"&", "#", "x", "2", "7", ";">>
      [] OTHER    -> <<c>>
RECURSIVE escape(_)
escape(s) == IF s = <<>> THEN <<>> ELSE EscapeChar(Head(s)) \o escape(Tail(s))

-----------------------------------------------------------------------------
(* InputValidator *)

\* sanitize_string(value, max_length); value is the Optional form field
sanitize_string(value, max_length) ==
    IF ~Truthy(value) THEN <<>>
    ELSE LET sanitized == escape(Strip(Get(value)))
         IN IF Len(sanitized) > max_length THEN <<>> ELSE sanitized

\* the character class [a-zA-Z0-9._@-]
UsernameChars ==
    {"a","b","c","d","e","f","g","h","i","j","k","l","m",
     "n","o","p","q","r","s","t","u","v","w","x","y","z",
     "A","B","C","D","E","F","G","H","I","J","K","L","M",
     "N","O","P","Q","R","S","T","U","V","W","X","Y","Z",
     "0","1","2","3","4","5","6","7","8","9",".","_","@","-"}

\* validate_username(username): <<valid, error>>
validate_username(username) ==
    IF username = <<>> THEN <<FALSE, "Username is required">>
    ELSE IF Len(username) < 3 THEN <<FALSE, "Username too short">>
    ELSE IF Len(username) > 50 THEN <<FALSE, "Username too long">>
    ELSE IF \E i \in 1..Len(username) : username[i] \notin UsernameChars
         THEN <<FALSE, "Invalid username format">>
    ELSE <<TRUE, "">>

\* validate_password(password): <<valid, error>>
validate_password(password) ==
    IF password = <<>> THEN <<FALSE, "Password is required">>
    ELSE IF Len(password) < 1 THEN <<FALSE, "Password too short">>
    ELSE IF Len(password) > 128 THEN <<FALSE, "Password too long">>
    ELSE <<TRUE, "">>

-----------------------------------------------------------------------------
(* String literals of the code, and the values the requests are drawn from *)

PathMcp == <<"/", "m", "c", "p">>
PathSse == <<"/", "s", "s", "e">>
PathMessages == <<"/", "m", "e", "s", "s", "a", "g", "e", "s", "/">>
PathDocuments == <<"/", "d", "o", "c", "u", "m", "e", "n", "t", "s">>
PathRpc == <<"/", "r", "p", "c">>
BearerPrefix == <<"B", "e", "a", "r", "e", "r", " ">>

TokenX == <<"X", "1">>
TokenY == <<"Y", "2">>
TokenXLower == <<"x", "1">>
\* Bearer tokens hold no whitespace (RFC 6750, b64token)
Tokens == {TokenX, TokenY, TokenXLower}

SecretS == <<"s", "e", "c">>
CookieBad == <<"b", "a", "d">>

UserAbc == <<"a", "b", "c">>
UserAb == <<"a", "b">>
UserAbd == <<"a", "b", "d">>
UserPadded == <<" ", "a", "b", "c">>
PassLt == <<"p", "<">>
PassBlank == <<" ">>
PassPx == <<"p", "x">>
PassEscaped == <<"p", "&", "l", "t", ";">>

Clients == {"10.0.0.1", "10.0.0.2"}

\* Authorization headers a client may send
Authorizations ==
    {None, Some(<<>>), Some(<<"B", "e", "a", "r", "e", "r">>)}
    \cup {Some(BearerPrefix \o t) : t \in Tokens}
    \cup {Some(BearerPrefix \o TokenX \o <<" ", "z">>),
          Some(BearerPrefix \o <<" ">> \o TokenX),
          Some(<<"b", "e", "a", "r", "e", "r", " ">> \o TokenX),
          Some(<<"B", "a", "s", "i", "c", " ">> \o TokenX)}

NoForm == [username |-> None, password |-> None]

\* a request: the parts of starlette's Request the gates and the router read
MkRequest(path, method, authorization, auth_token, client, form) ==
    [path |-> path, method |-> method, authorization |-> authorization,
     auth_token |-> auth_token, client |-> client, form |-> form]

\* requests to the RPC side of the server
RpcRequests ==
    {MkRequest(p, "POST", h, None, c, NoForm) :
        p \in {PathMcp, PathMcp \o <<"/">>, PathMcp \o <<"x">>, PathRpc,
               PathSse, PathMessages, <<"/">>},
        h \in Authorizations, c \in Clients}

\* username and password fields a login form may carry
Forms ==
    {NoForm}
    \cup {[username |-> Some(u), password |-> Some(PassLt)] :
            u \in {UserAbc, UserAb, UserPadded}}
    \cup {[username |-> Some(UserAbc), password |-> Some(w)] :
            w \in {PassBlank, PassEscaped}}
    \cup {[username |-> Some(UserAb), password |-> Some(PassBlank)]}

\* requests to the document side of the server
DocRequests ==
    {MkRequest(PathDocuments \o <<"/", "a">>, "GET", None, k, c, NoForm) :
        k \in {None, Some(<<>>), Some(SecretS), Some(CookieBad)}, c \in Clients}
    \cup
    {MkRequest(PathDocuments \o <<"/", "a">>, "HEAD", None, k, c, NoForm) :
        k \in {None, Some(SecretS)}, c \in Clients}
    \cup
    {MkRequest(PathDocuments \o <<"/", "a">>, "POST", None, k, c, f) :
        k \in {None, Some(SecretS)}, c \in Clients, f \in Forms}

\* a response; error is "" when there is none.  passed is history: the gates
\* that examined the request and forwarded it
MkResponse(status, by, error, cookie, location) ==
    [status |-> status, by |-> by, error |-> error, cookie |-> cookie,
     location |-> location, passed |-> {}]

NoResponse == MkResponse(0, "none", "", None, None)

-----------------------------------------------------------------------------
(* BearerAuthMiddleware *)

\* a faulty variant: the bearer gate scoped to /mcp/ instead of /mcp
BearerProtectedPathsSlash == {PathMcp \o <<"/">>}

BearerProtectedPaths == {PathMcp}

\* BearerAuthMiddleware.dispatch: [forward |-> TRUE] stands for call_next(request)
BearerDispatch(request, e) ==
    LET path_requires_bearer ==
            \E path \in BearerProtectedPaths : StartsWith(request.path, path)
        expected == e.MCP_BEARER_TOKEN
        header == request.authorization
        parts == Split(Get(header), " ")
        token == IF Len(parts) > 1 THEN parts[2] ELSE <<>>
    IN  IF ~path_requires_bearer THEN [forward |-> TRUE, resp |-> NoResponse]
        ELSE IF ~Truthy(expected) THEN
            [forward |-> FALSE,
             resp |-> MkResponse(500, "bearer",
                "Server misconfiguration - MCP_BEARER_TOKEN not set", None, None)]
        ELSE IF ~Truthy(header) \/ ~StartsWith(Get(header), BearerPrefix) THEN
            [forward |-> FALSE,
             resp |-> MkResponse(401, "bearer", "Missing authorization header", None, None)]
        ELSE IF token # Get(expected) THEN
            [forward |-> FALSE,
             resp |-> MkResponse(401, "bearer", "Unauthorized", None, None)]
        ELSE [forward |-> TRUE, resp |-> NoResponse]

-----------------------------------------------------------------------------
(* The login limiter: slowapi's Limiter over limits' fixed-window strategy  *)
(* and in-memory storage.  A key that is absent has count 0 and end 0.      *)

RateLimitAmount == 3
RateLimitSeconds == 60

\* a faulty variant: an entry is kept when its window has ended
StorageGetKeepsEnded(st, ex, key, now) == [storage |-> st, expirations |-> ex]

\* MemoryStorage.get(key): an entry whose window has ended is dropped first
StorageGet(st, ex, key, now) ==
    IF ex[key] <= now
    THEN [storage |-> [st EXCEPT ![key] = 0], expirations |-> [ex EXCEPT ![key] = 0]]
    ELSE [storage |-> st, expirations |-> ex]

\* a faulty variant: the test admits a hit when the limit is already reached
LimiterTestInclusive(st, ex, key, now) ==
    StorageGet(st, ex, key, now).storage[key] <= RateLimitAmount

\* limiter._limiter.test(rate_limit, client_ip)
LimiterTest(st, ex, key, now) ==
    StorageGet(st, ex, key, now).storage[key] < RateLimitAmount

\* a faulty variant: a hit is not counted
LimiterHitNothing(st, ex, key, now) == [storage |-> st, expirations |-> ex]

\* limiter._limiter.hit(rate_limit, client_ip): the first hit of a window
\* sets its end
LimiterHit(st, ex, key, now) ==
    LET got == StorageGet(st, ex, key, now)
        count == got.storage[key] + 1
    IN  [storage |-> [got.storage EXCEPT ![key] = count],
         expirations |-> IF count = 1
                         THEN [got.expirations EXCEPT ![key] = now + RateLimitSeconds]
                         ELSE got.expirations]

-----------------------------------------------------------------------------
(* LoginPasswordMiddleware *)

\* a faulty variant: the login gate scoped to every path
LoginProtectedPathsRoot == {<<"/">>}

LoginProtectedPaths == {PathDocuments}

\* a faulty variant: any cookie value is taken for the session
_verify_token_any(token, expected_secret) == TRUE

\* a faulty variant: no cookie value is taken for the session
_verify_token_none(token, expected_secret) == FALSE

_verify_token(token, expected_secret) == token = expected_secret

_show_login_form(error) == MkResponse(200, "login", error, None, None)

\* a faulty variant: the sanitized password is compared instead of the raw one
check_credentials_sanitized(username, password, raw_password, docs_username, docs_password) ==
    username = Get(docs_username) /\ password = Get(docs_password)

\* the credential check of dispatch: the sanitized username and the raw
\* password against the configured pair (the sanitized password is not used)
check_credentials(username, password, raw_password, docs_username, docs_password) ==
    username = Get(docs_username) /\ raw_password = docs_password

\* LoginPasswordMiddleware.dispatch: the decision, the response and the
\* limiter's storage afterwards
LoginDispatch(request, e, st, ex, now) ==
    LET path_requires_login ==
            \E path \in LoginProtectedPaths : StartsWith(request.path, path)
        auth_token_secret == e.DOCUMENTS_TOKEN
        docs_username == e.DOCUMENTS_USERNAME
        docs_password == e.DOCUMENTS_PASSWORD
        auth_token == request.auth_token
        same == [storage |-> st, expirations |-> ex]
        Out(fwd, r, lim) ==
            [forward |-> fwd, resp |-> r, storage |-> lim.storage,
             expirations |-> lim.expirations]
        client_ip == request.client
        hit == LimiterHit(st, ex, client_ip, now)
        raw_username == request.form.username
        raw_password == request.form.password
        username == sanitize_string(raw_username, 50)
        password == sanitize_string(raw_password, 128)
        username_check == validate_username(username)
        password_check == validate_password(password)
    IN  IF ~path_requires_login THEN Out(TRUE, NoResponse, same)
        ELSE IF ~Truthy(auth_token_secret) THEN
            Out(FALSE, MkResponse(500, "login",
                "Server misconfiguration - DOCUMENTS_TOKEN not set", None, None), same)
        ELSE IF ~Truthy(docs_username) \/ ~Truthy(docs_password) THEN
            Out(FALSE, MkResponse(500, "login",
                "Server misconfiguration - DOCUMENTS_USERNAME or DOCUMENTS_PASSWORD not set",
                None, None), same)
        ELSE IF Truthy(auth_token)
                /\ _verify_token(Get(auth_token), Get(auth_token_secret)) THEN
            Out(TRUE, NoResponse, same)
        ELSE IF request.method = "POST" THEN
            IF ~LimiterTest(st, ex, client_ip, now) THEN
                Out(FALSE,
                    _show_login_form("Too many login attempts. Please try again later."),
                    same)
            ELSE IF ~username_check[1] THEN
                Out(FALSE, _show_login_form(username_check[2]), hit)
            ELSE IF ~password_check[1] THEN
                Out(FALSE, _show_login_form(password_check[2]), hit)
            ELSE IF check_credentials(username, password, raw_password,
                                      docs_username, docs_password) THEN
                Out(FALSE, MkResponse(302, "login", "", auth_token_secret,
                                      Some(request.path)), hit)
            ELSE Out(FALSE, _show_login_form("Invalid username or password"), hit)
        ELSE Out(FALSE, _show_login_form(""), same)

-----------------------------------------------------------------------------
(* src/app.py: the launch and the application it builds *)

Transports == {"stdio", "streamable-http", "sse"}
PathArgs == {None, Some(PathMcp), Some(PathRpc)}

\* parse_args(): args.path as the branches of lines 63-68 leave it
parse_args(t, path) ==
    IF t = "sse" /\ path = None THEN Some(PathSse)
    ELSE IF t = "streamable-http" /\ path = None THEN Some(PathMcp)
    ELSE None

\* the paths routed to the MCP handler, which invokes the tools:
\* mcp.http_app(path=args.path) mounts it at args.path, /mcp when that is None;
\* mcp.run(transport="sse", path=args.path) serves the event stream at
\* args.path, /sse when that is None, and takes the messages at /messages/
ToolRoutes(t, path) ==
    LET args_path == parse_args(t, path)
    IN  IF t = "streamable-http"
        THEN {IF args_path # None THEN Get(args_path) ELSE PathMcp}
        ELSE IF t = "sse"
        THEN {IF args_path # None THEN Get(args_path) ELSE PathSse, PathMessages}
        ELSE {}

\* mount_static_files(app): the StaticFiles mount at /documents
DocumentRoute(t, request) ==
    t = "streamable-http" /\ StartsWith(request.path, PathDocuments \o <<"/">>)

\* the routes behind the middlewares
Router(request, t, path) ==
    IF request.path \in ToolRoutes(t, path)
    THEN MkResponse(200, "tool", "", None, None)
    ELSE IF DocumentRoute(t, request)
    THEN MkResponse(200, "documents", "", None, None)
    ELSE MkResponse(404, "router", "", None, None)

\* a faulty variant: the middlewares run in the order they were added
MiddlewaresAsAdded(t) ==
    IF t = "streamable-http" THEN <<"bearer", "login">> ELSE <<>>

\* the middlewares app.py installs, outermost first: add_middleware puts each
\* new middleware in front of those added before it
Middlewares(t) ==
    IF t = "streamable-http" THEN <<"login", "bearer">> ELSE <<>>

\* one request through the application: the response and the limiter's
\* storage afterwards
RECURSIVE Through(_, _, _, _, _, _, _, _, _)
Through(stack, passed, request, t, path, e, st, ex, now) ==
    IF stack = <<>>
    THEN [resp |-> [Router(request, t, path) EXCEPT !.passed = passed],
          storage |-> st, expirations |-> ex]
    ELSE IF Head(stack) = "login"
    THEN LET out == LoginDispatch(request, e, st, ex, now)
             examined == \E p \in LoginProtectedPaths : StartsWith(request.path, p)
         IN  IF out.forward
             THEN Through(Tail(stack),
                          IF examined THEN passed \cup {"login"} ELSE passed,
                          request, t, path, e, out.storage, out.expirations, now)
             ELSE [resp |-> out.resp, storage |-> out.storage,
                   expirations |-> out.expirations]
    ELSE LET out == BearerDispatch(request, e)
             examined == \E p \in BearerProtectedPaths : StartsWith(request.path, p)
         IN  IF out.forward
             THEN Through(Tail(stack),
                          IF examined THEN passed \cup {"bearer"} ELSE passed,
                          request, t, path, e, st, ex, now)
             ELSE [resp |-> out.resp, storage |-> st, expirations |-> ex]

Pipeline(request) ==
    Through(Middlewares(transport), {}, request, transport, pathArg, env,
            storage, expirations, clock)

\* the gates whose dispatch runs on a request now, in the order they run: a
\* gate runs once every gate outside it has called call_next
RECURSIVE Seen(_, _)
Seen(stack, request) ==
    IF stack = <<>> THEN <<>>
    ELSE <<Head(stack)>> \o
         (IF (IF Head(stack) = "login"
              THEN LoginDispatch(request, env, storage, expirations, clock).forward
              ELSE BearerDispatch(request, env).forward)
          THEN Seen(Tail(stack), request) ELSE <<>>)

-----------------------------------------------------------------------------
(* The HTTP side as a state machine *)

MaxClock == 60
TickSteps == {20, 39}

\* a form submission: a POST to a document path without a valid session cookie
IsSubmission(request) ==
    /\ request.method = "POST"
    /\ \E path \in LoginProtectedPaths : StartsWith(request.path, path)
    /\ request.auth_token # env.DOCUMENTS_TOKEN

Env(bearer, token, username, password) ==
    [MCP_BEARER_TOKEN |-> bearer, DOCUMENTS_TOKEN |-> token,
     DOCUMENTS_USERNAME |-> username, DOCUMENTS_PASSWORD |-> password]

InitHttp ==
    /\ storage = [c \in Clients |-> 0]
    /\ expirations = [c \in Clients |-> 0]
    /\ clock = 0
    /\ resp = NoResponse
    /\ subCount = [c \in Clients |-> 0]
    /\ firstSub = [c \in Clients |-> 0]
    /\ matched = FALSE

\* the server answers one request
Handle(request) ==
    /\ transport # "stdio"
    /\ LET out == Pipeline(request)
           c == request.client
           counted == IsSubmission(request) /\ Truthy(env.DOCUMENTS_TOKEN)
                      /\ Truthy(env.DOCUMENTS_USERNAME)
                      /\ Truthy(env.DOCUMENTS_PASSWORD)
       IN  /\ resp' = out.resp
           /\ storage' = out.storage
           /\ expirations' = out.expirations
           /\ subCount' = IF counted /\ subCount[c] < 4
                          THEN [subCount EXCEPT ![c] = @ + 1] ELSE subCount
           /\ firstSub' = IF counted /\ subCount[c] = 0
                          THEN [firstSub EXCEPT ![c] = clock] ELSE firstSub
           /\ matched' = (/\ counted
                          /\ LimiterTest(storage, expirations, c, clock)
                          /\ request.form.username = env.DOCUMENTS_USERNAME
                          /\ request.form.password = env.DOCUMENTS_PASSWORD)
    /\ UNCHANGED <<transport, pathArg, env, clock>>

RpcRequest == \E request \in RpcRequests : Handle(request)

DocRequest == \E request \in DocRequests : Handle(request)

\* time passes
Tick ==
    /\ \E d \in TickSteps : clock + d <= MaxClock /\ clock' = clock + d
    /\ UNCHANGED <<transport, pathArg, env, storage, expirations, resp,
                   subCount, firstSub, matched>>

\* max_age of the auth_token cookie, in seconds
max_age == 604800

\* the latest clock value of a login that is followed through max_age
MaxIssueClock == 0

\* a login has just succeeded; the client keeps the cookie and max_age
\* seconds pass
SessionAges ==
    /\ resp.status = 302
    /\ clock <= MaxIssueClock
    /\ clock' = clock + max_age
    /\ UNCHANGED <<transport, pathArg, env, storage, expirations, resp,
                   subCount, firstSub, matched>>

-----------------------------------------------------------------------------
(* The lookup caches: @alru_cache(ttl=900) around each fetch function.       *)
(* An entry is created, holding a pending future, when a call misses; the    *)
(* calls that arrive while it is pending await the same future.  When the    *)
(* fetch ends the entry's timer is set to remove it ttl seconds later.  An   *)
(* entry whose fetch failed is dropped by the next call, which fetches anew. *)

TTL == 900

\* the decorated fetch functions
Slots == {"lookup._fetch_offers", "offers._fetch_offers", "_fetch_talent_pools",
          "_fetch_disqualify_reasons", "_fetch_tags", "_fetch_metrics"}

\* the upstream list each fetch function reads
KindOf ==
    [k \in Slots |->
        CASE k = "lookup._fetch_offers" -> "offers"
          [] k = "offers._fetch_offers" -> "offers"
          [] k = "_fetch_talent_pools" -> "talent_pools"
          [] k = "_fetch_disqualify_reasons" -> "disqualify_reasons"
          [] k = "_fetch_tags" -> "tags"
          [] k = "_fetch_metrics" -> "metrics"]

Kinds == {KindOf[k] : k \in Slots}

\* the tools that read a cached list, with the fetch function each awaits
FetchOf ==
    [list_offers |-> "lookup._fetch_offers",
     list_offer_fields |-> "offers._fetch_offers",
     list_talent_pools |-> "_fetch_talent_pools",
     list_disqualify_reasons |-> "_fetch_disqualify_reasons",
     list_tags |-> "_fetch_tags",
     list_metrics |-> "_fetch_metrics",
     get_metric_details |-> "_fetch_metrics"]

CachedTools == DOMAIN FetchOf

MaxCalls == 3
MaxCacheClock == 1360
MaxLatency == 5
ElapseSteps == {450}

\* an entry: absent, pending, cached (fetch: the GET whose result it holds)
\* or failed; since is when its fetch began (pending) or ended, and expiry
\* is when its timer removes it
Absent == [status |-> "absent", fetch |-> 0, since |-> 0, expiry |-> 0]

NoReturn == [slot |-> "", outcome |-> "none", fetch |-> 0, expiry |-> 0,
             now |-> 0, upstream |-> FALSE]
NoCall == [slot |-> "", prior |-> "none", found |-> "none", age |-> -1,
           kept |-> 0, fetch |-> 0, fetches |-> 0]
NoSuccess == [at |-> -1, slot |-> "", fetch |-> 0]
NeverStored == [at |-> -1, fetch |-> 0]

InitCache ==
    /\ cache = [k \in Slots |-> Absent]
    /\ inflight = [k \in Slots |-> 0]
    /\ upstreamCalls = [k \in Slots |-> 0]
    /\ waiting = [k \in Slots |-> {}]
    /\ nCalls = 0
    /\ call = NoCall
    /\ ret = NoReturn
    /\ stored = [k \in Slots |-> NeverStored]
    /\ lastRet = [n \in Kinds |-> NoSuccess]
    /\ prevRet = [n \in Kinds |-> NoSuccess]

\* a faulty variant: a pending entry is not awaited
AwaitableNever(entry) == FALSE

\* the entry's future is not done: the call awaits it
Awaitable(entry) == entry.status = "pending"

\* a faulty variant: a finished entry is returned even if it holds an exception
ServedWhenDone(entry) == entry.status \in {"cached", "failed"}

\* the entry's future is done and holds no exception: the call returns it
Served(entry) == entry.status = "cached"

\* history: a successful return of a tool that reads fetch function k
Returned(k, at, fetch) ==
    /\ prevRet' = [prevRet EXCEPT ![KindOf[k]] = lastRet[KindOf[k]]]
    /\ lastRet' = [lastRet EXCEPT ![KindOf[k]] = [at |-> at, slot |-> k, fetch |-> fetch]]

\* a tool awaits its fetch function (the wrapper's __call__): a pending entry
\* is awaited, a finished one is returned at once, and otherwise (no entry,
\* or one whose fetch failed, which is dropped) the fetch function is started
Call(tool) ==
    LET k == FetchOf[tool]
        entry == cache[k]
        age == IF stored[k].at < 0 THEN -1 ELSE clock - stored[k].at
        seen(found, fetch, fetches) ==
            [slot |-> k, prior |-> entry.status, found |-> found, age |-> age,
             kept |-> stored[k].fetch, fetch |-> fetch, fetches |-> fetches]
    IN  /\ nCalls < MaxCalls
        /\ nCalls' = nCalls + 1
        /\ IF Awaitable(entry)
           THEN /\ call' = seen("joined", entry.fetch, 0)
                /\ waiting' = [waiting EXCEPT ![k] = @ \cup {clock}]
                /\ UNCHANGED <<cache, inflight, upstreamCalls, ret, lastRet, prevRet>>
           ELSE IF Served(entry)
           THEN /\ call' = seen("hit", entry.fetch, 0)
                /\ ret' = [slot |-> k,
                           outcome |-> IF entry.status = "cached" THEN "hit" ELSE "error",
                           fetch |-> entry.fetch, expiry |-> entry.expiry,
                           now |-> clock, upstream |-> FALSE]
                /\ IF entry.status = "cached"
                   THEN Returned(k, clock, entry.fetch)
                   ELSE UNCHANGED <<lastRet, prevRet>>
                /\ UNCHANGED <<cache, inflight, upstreamCalls, waiting>>
           ELSE /\ call' = seen("miss", upstreamCalls[k] + 1, 1)
                /\ cache' = [cache EXCEPT ![k] =
                                [status |-> "pending", fetch |-> upstreamCalls[k] + 1,
                                 since |-> clock, expiry |-> 0]]
                /\ inflight' = [inflight EXCEPT ![k] = @ + 1]
                /\ upstreamCalls' = [upstreamCalls EXCEPT ![k] = @ + 1]
                /\ waiting' = [waiting EXCEPT ![k] = @ \cup {clock}]
                /\ UNCHANGED <<ret, lastRet, prevRet>>
        /\ UNCHANGED <<stored, clock>>

\* _get returns and the fetch function with it: the entry holds the result
\* and its timer is set (_task_done_callback); the awaiting calls return
FetchSucceeds(k) ==
    /\ inflight[k] > 0
    /\ inflight' = [inflight EXCEPT ![k] = @ - 1]
    /\ cache' = [cache EXCEPT ![k] = [status |-> "cached", fetch |-> cache[k].fetch,
                                      since |-> clock, expiry |-> clock + TTL]]
    /\ stored' = [stored EXCEPT ![k] = [at |-> clock, fetch |-> cache[k].fetch]]
    /\ ret' = [slot |-> k, outcome |-> "fetched", fetch |-> cache[k].fetch,
               expiry |-> clock + TTL, now |-> clock, upstream |-> TRUE]
    /\ waiting' = [waiting EXCEPT ![k] = {}]
    /\ IF waiting[k] # {}
       THEN Returned(k, CHOOSE t \in waiting[k] : \A u \in waiting[k] : u <= t,
                     cache[k].fetch)
       ELSE UNCHANGED <<lastRet, prevRet>>
    /\ UNCHANGED <<upstreamCalls, nCalls, call, clock>>

\* _get raises (a non-2xx answer, a timeout): the awaiting calls raise, and
\* the entry keeps the exception until its timer or the next call drops it
FetchFails(k) ==
    /\ inflight[k] > 0
    /\ inflight' = [inflight EXCEPT ![k] = @ - 1]
    /\ cache' = [cache EXCEPT ![k] = [status |-> "failed", fetch |-> cache[k].fetch,
                                      since |-> clock, expiry |-> clock + TTL]]
    /\ ret' = [slot |-> k, outcome |-> "error", fetch |-> cache[k].fetch,
               expiry |-> 0, now |-> clock, upstream |-> TRUE]
    /\ waiting' = [waiting EXCEPT ![k] = {}]
    /\ UNCHANGED <<upstreamCalls, nCalls, call, stored, lastRet, prevRet, clock>>

\* an entry's timer fires: loop.call_later(ttl, cache.pop, key)
TimerFires(k) ==
    /\ cache[k].status \in {"cached", "failed"}
    /\ cache[k].expiry <= clock
    /\ cache' = [cache EXCEPT ![k] = Absent]
    /\ UNCHANGED <<inflight, upstreamCalls, waiting, nCalls, call, ret, stored,
                   lastRet, prevRet, clock>>

\* a faulty variant: no timer is ever set
NoDeadlines == {}

\* the timers that are set, and whether one is due
Deadlines == {cache[k].expiry : k \in {j \in Slots : cache[j].status \in {"cached", "failed"}}}

TimerDue == \E t \in Deadlines : t <= clock

\* time passes while a GET is in flight
Await ==
    /\ \E k \in Slots : inflight[k] > 0
    /\ \A k \in Slots : cache[k].status = "pending"
                          => clock + MaxLatency <= cache[k].since + MaxLatency
    /\ ~TimerDue
    /\ \A t \in Deadlines : clock + MaxLatency <= t
    /\ clock + MaxLatency <= MaxCacheClock
    /\ clock' = clock + MaxLatency
    /\ UNCHANGED cacheVars

\* time passes between invocations, up to the next timer at most
Elapse ==
    /\ ~TimerDue
    /\ \E d \in ElapseSteps \cup {t - clock : t \in Deadlines} :
          /\ d > 0
          /\ \A t \in Deadlines : clock + d <= t
          /\ clock + d <= MaxCacheClock
          /\ clock' = clock + d
    /\ UNCHANGED cacheVars

-----------------------------------------------------------------------------
(* tools/utils.py: iso_to_unix.  A str is a tuple of characters.  The forms  *)
(* of datetime.fromisoformat modelled are YYYY-MM-DD, alone or followed by a *)
(* separator and HH:MM or HH:MM:SS, and then by an offset +HH:MM or -HH:MM.  *)

DigitVal == [c \in {"0", "1", "2", "3", "4", "5", "6", "7", "8", "9"} |->
                CASE c = "0" -> 0 [] c = "1" -> 1 [] c = "2" -> 2 [] c = "3" -> 3
                  [] c = "4" -> 4 [] c = "5" -> 5 [] c = "6" -> 6 [] c = "7" -> 7
                  [] c = "8" -> 8 [] c = "9" -> 9]

IsDigits(s, i, n) == \A j \in i..(i + n - 1) : j <= Len(s) /\ s[j] \in DOMAIN DigitVal

RECURSIVE Num(_, _, _)
Num(s, i, n) == IF n = 0 THEN 0 ELSE Num(s, i, n - 1) * 10 + DigitVal[s[i + n - 1]]

\* a faulty variant: a Z is left as it is
ReplaceZNothing(s) == s

\* str.replace("Z", "+00:00")
RECURSIVE ReplaceZ(_)
ReplaceZ(s) ==
    IF s = <<>> THEN <<>>
    ELSE (IF Head(s) = "Z" THEN <<"+", "0", "0", ":", "0", "0">> ELSE <<Head(s)>>)
         \o ReplaceZ(Tail(s))

IsLeap(y) == (y % 4 = 0 /\ y % 100 # 0) \/ y % 400 = 0

DaysInMonth(y, m) ==
    IF m = 2 THEN (IF IsLeap(y) THEN 29 ELSE 28)
    ELSE IF m \in {4, 6, 9, 11} THEN 30 ELSE 31

\* days from 1970-01-01 to the date y-m-d
DaysFromCivil(y, m, d) ==
    LET yy == IF m <= 2 THEN y - 1 ELSE y
        era == yy \div 400
        yoe == yy - era * 400
        mp == IF m > 2 THEN m - 3 ELSE m + 9
        doy == (153 * mp + 2) \div 5 + d - 1
        doe == yoe * 365 + yoe \div 4 - yoe \div 100 + doy
    IN  era * 146097 + doe - 719468

NoDateTime == [ok |-> FALSE, seconds |-> 0, aware |-> FALSE]

\* datetime.fromisoformat: the seconds from the epoch to the wall time read,
\* less the offset when there is one (aware)
fromisoformat(s) ==
    LET n == Len(s)
        hasOffset == n \in {22, 25}
        body == IF hasOffset THEN n - 6 ELSE n
        dateOk == /\ body \in {10, 16, 19}
                  /\ IsDigits(s, 1, 4) /\ s[5] = "-" /\ IsDigits(s, 6, 2)
                  /\ s[8] = "-" /\ IsDigits(s, 9, 2)
        timeOk == body = 10 \/
                  (/\ IsDigits(s, 12, 2) /\ s[14] = ":" /\ IsDigits(s, 15, 2)
                   /\ (body = 16 \/ (s[17] = ":" /\ IsDigits(s, 18, 2))))
        offOk == ~hasOffset \/
                 (/\ s[body + 1] \in {"+", "-"}
                  /\ IsDigits(s, body + 2, 2) /\ s[body + 4] = ":"
                  /\ IsDigits(s, body + 5, 2))
    IN  IF ~(dateOk /\ timeOk /\ offOk) THEN NoDateTime
        ELSE LET y == Num(s, 1, 4)
                 m == Num(s, 6, 2)
                 d == Num(s, 9, 2)
                 hh == IF body = 10 THEN 0 ELSE Num(s, 12, 2)
                 mi == IF body = 10 THEN 0 ELSE Num(s, 15, 2)
                 ss == IF body = 19 THEN Num(s, 18, 2) ELSE 0
                 oh == IF hasOffset THEN Num(s, body + 2, 2) ELSE 0
                 om == IF hasOffset THEN Num(s, body + 5, 2) ELSE 0
                 off == (IF hasOffset /\ s[body + 1] = "-" THEN -1 ELSE 1)
                        * (oh * 3600 + om * 60)
             IN  IF /\ y >= 1 /\ m \in 1..12 /\ d >= 1 /\ d <= DaysInMonth(y, m)
                    /\ hh <= 23 /\ mi <= 59 /\ ss <= 59 /\ oh <= 23 /\ om <= 59
                 THEN [ok |-> TRUE,
                       seconds |-> DaysFromCivil(y, m, d) * 86400 + hh * 3600
                                   + mi * 60 + ss - off,
                       aware |-> hasOffset]
                 ELSE NoDateTime

\* iso_to_unix of an Optional[str]: the timestamp, or the ValueError that
\* names the argument (None has no replace, which raises inside the try);
\* a datetime without an offset is read in the process's local zone.
\* (CHOOSE r \in {e(x) : x \in {v}} : TRUE is e(v), with v evaluated once.)
iso_to_unix(iso_string, z) ==
    IF iso_string = None
    THEN [ok |-> FALSE, value |-> 0, offending |-> iso_string]
    ELSE CHOOSE r \in
            {IF dt.ok
             THEN [ok |-> TRUE,
                   value |-> IF dt.aware THEN dt.seconds ELSE dt.seconds - z,
                   offending |-> None]
             ELSE [ok |-> FALSE, value |-> 0, offending |-> iso_string] :
                dt \in {fromisoformat(replaced) :
                            replaced \in {ReplaceZ(Get(iso_string))}}} : TRUE

-----------------------------------------------------------------------------
(* tools/candidates.py: CandidateSearchFilter and search_candidates.  Ids    *)
(* are written as strings, names and keys as strings, dates as tuples of     *)
(* characters; a clause is one record shape for every JSON object built.     *)

\* the fields' defaults
Defaults ==
    [offer_ids |-> None, disqualify_reasons |-> None, is_disqualified |-> None,
     candidate_tag_ids |-> None, skills |-> None, skills_combiner |-> Some("in"),
     talent_pools |-> None, talent_pools_combiner |-> Some("in"),
     has_stage |-> None, on_stage |-> None,
     gdpr_expires_from |-> None, gdpr_expires_to |-> None,
     created_from |-> None, created_to |-> None,
     custom_fields |-> None, custom_fields_combiner |-> None,
     limit |-> 100, offset |-> 0]

FieldNames == DOMAIN Defaults

DateZ == <<"2", "0", "2", "5", "-", "0", "5", "-", "2", "0", "T", "1", "2", ":", "3", "0", ":", "0", "0", "Z">>
DateOffset == <<"2", "0", "2", "5", "-", "0", "5", "-", "2", "1", "T", "0", "1", ":", "0", "0", ":", "0", "0", "+", "0", "2", ":", "0", "0">>
DateNaive == <<"1", "9", "7", "0", "-", "0", "1", "-", "0", "2">>
DateBad == <<"2", "0", "-", "0", "5", "-", "2", "0", "2", "5">>

DateInputs == {Some(<<>>), Some(DateZ), Some(DateOffset), Some(DateNaive), Some(DateBad)}

\* the names of the entries that /disqualify_reasons returns
DisqualifyReasonNames == {"Overqualified", "Salary"}

\* the values a caller gives each field
FieldValues ==
    [offer_ids |-> {Some(<<>>), Some(<<"1">>), Some(<<"2", "1">>)},
     disqualify_reasons |-> {Some(<<>>), Some(<<"Overqualified">>),
                             Some(<<"Overqualified", "Unheard">>)},
     is_disqualified |-> {Some(TRUE), Some(FALSE)},
     candidate_tag_ids |-> {Some(<<>>), Some(<<"7">>)},
     skills |-> {Some(<<>>), Some(<<"sql">>)},
     skills_combiner |-> {None, Some("has_all_of")},
     talent_pools |-> {Some(<<>>), Some(<<"123">>)},
     talent_pools_combiner |-> {None, Some("all_in")},
     has_stage |-> {Some(TRUE), Some(FALSE)},
     on_stage |-> {Some(<<>>), Some(<<"Hired">>)},
     gdpr_expires_from |-> DateInputs, gdpr_expires_to |-> DateInputs,
     created_from |-> DateInputs, created_to |-> DateInputs,
     custom_fields |-> {Some(""), Some("cf_level"), Some("stages")},
     custom_fields_combiner |-> {None, Some("has_any"), Some("has_none")},
     limit |-> {1, 10000, 10001, 20000}, offset |-> {50}]

LocalZones == {0, 7200}
MaxSupplied == 3

\* a faulty variant: the cap itself is refused
_limit_max_exclusive(v) == v < 10000

\* the validator of limit: whether it returns v rather than raising
_limit_max(v) == ~(v > 10000)

\* pydantic builds the model from the fields given, whatever their order
Validate(a) ==
    [f \in FieldNames |->
        IF \E i \in 1..Len(a) : a[i][1] = f
        THEN a[CHOOSE i \in 1..Len(a) : a[i][1] = f][2]
        ELSE Defaults[f]]

\* Python truth of an Optional list
NonEmpty(o) == o # None /\ Get(o) # <<>>
\* Python truth of an Optional key
NonBlank(o) == o # None /\ Get(o) # ""

Clause(filter, field, attr, op, values, gte, lte) ==
    [filter |-> filter, field |-> field, attr |-> attr, op |-> op,
     values |-> values, gte |-> gte, lte |-> lte]

\* {"filter": f, attr: {op: values}}
ListClause(filter, attr, op, values) == Clause(filter, "", attr, op, values, None, None)

\* {"filter": f, attr: {op: true}} and, with no attr, {"filter": f, op: true}
FlagClause(filter, attr, op) == Clause(filter, "", attr, op, <<>>, None, None)

Emits(clauses) == [ok |-> TRUE, clauses |-> clauses, offending |-> None]

Raises(offending) == [ok |-> FALSE, clauses |-> <<>>, offending |-> offending]

JobsStep(sf, z) ==
    Emits(IF NonEmpty(sf.offer_ids)
          THEN <<ListClause("jobs", "id", "in", Get(sf.offer_ids))>> ELSE <<>>)

DisqualifyReasonsStep(sf, z) ==
    Emits(IF NonEmpty(sf.disqualify_reasons)
          THEN <<ListClause("disqualifies", "reason", "in", Get(sf.disqualify_reasons))>>
          ELSE <<>>)

\* a faulty variant: both presence clauses are appended
IsDisqualifiedBoth(sf, z) ==
    Emits(IF sf.is_disqualified # None
          THEN <<FlagClause("disqualifies", "reason", "has_any"),
                 FlagClause("disqualifies", "reason", "has_none")>>
          ELSE <<>>)

IsDisqualifiedStep(sf, z) ==
    Emits(IF sf.is_disqualified # None
          THEN (IF Get(sf.is_disqualified)
                THEN <<FlagClause("disqualifies", "reason", "has_any")>>
                ELSE <<FlagClause("disqualifies", "reason", "has_none")>>)
          ELSE <<>>)

TagsStep(sf, z) ==
    Emits(IF NonEmpty(sf.candidate_tag_ids)
          THEN <<ListClause("tags", "id", "in", Get(sf.candidate_tag_ids))>> ELSE <<>>)

SkillsStep(sf, z) ==
    Emits(IF NonEmpty(sf.skills) /\ sf.skills_combiner # None
          THEN <<ListClause("skills", "text", Get(sf.skills_combiner), Get(sf.skills))>>
          ELSE <<>>)

TalentPoolsStep(sf, z) ==
    Emits(IF NonEmpty(sf.talent_pools) /\ sf.talent_pools_combiner # None
          THEN <<ListClause("talent_pools", "id", Get(sf.talent_pools_combiner),
                            Get(sf.talent_pools))>>
          ELSE <<>>)

HasStageStep(sf, z) ==
    Emits(IF sf.has_stage # None
          THEN (IF Get(sf.has_stage)
                THEN <<FlagClause("stages", "", "has_any")>>
                ELSE <<FlagClause("stages", "", "has_none")>>)
          ELSE <<>>)

OnStageStep(sf, z) ==
    Emits(IF sf.on_stage # None
          THEN <<ListClause("stages", "name", "in", Get(sf.on_stage))>> ELSE <<>>)

\* {"field": name, **bounds}; wantGte and wantLte are the tests the code
\* makes before converting fromField and toField
Window(name, wantGte, fromField, wantLte, toField, z) ==
    CHOOSE r \in
        {IF wantGte /\ ~gte.ok THEN Raises(gte.offending)
         ELSE IF wantLte /\ ~lte.ok THEN Raises(lte.offending)
         ELSE Emits(<<Clause("", name, "", "", <<>>,
                             IF wantGte THEN Some(gte.value) ELSE None,
                             IF wantLte THEN Some(lte.value) ELSE None)>>) :
            gte \in {IF wantGte THEN iso_to_unix(fromField, z) ELSE Raises(None)},
            lte \in {IF wantLte THEN iso_to_unix(toField, z) ELSE Raises(None)}} : TRUE

GdprStep(sf, z) ==
    IF NonEmpty(sf.gdpr_expires_from) \/ NonEmpty(sf.gdpr_expires_to)
    THEN Window("gdpr_expires_at", NonEmpty(sf.created_from), sf.gdpr_expires_from,
                NonEmpty(sf.created_to), sf.gdpr_expires_to, z)
    ELSE Emits(<<>>)

CreatedStep(sf, z) ==
    IF NonEmpty(sf.created_from) \/ NonEmpty(sf.created_to)
    THEN Window("created_at", NonEmpty(sf.created_from), sf.created_from,
                NonEmpty(sf.created_to), sf.created_to, z)
    ELSE Emits(<<>>)

CustomFieldsStep(sf, z) ==
    Emits(IF NonBlank(sf.custom_fields) /\ sf.custom_fields_combiner # None
          THEN <<FlagClause(Get(sf.custom_fields), "", Get(sf.custom_fields_combiner))>>
          ELSE <<>>)

\* a faulty variant: on_stage is taken before has_stage
StatementOrderStagesSwapped ==
    <<"jobs", "disqualify_reasons", "is_disqualified", "tags", "skills",
      "talent_pools", "on_stage", "has_stage", "gdpr", "created", "custom_fields">>

\* the order in which search_candidates takes the steps
StatementOrder ==
    <<"jobs", "disqualify_reasons", "is_disqualified", "tags", "skills",
      "talent_pools", "has_stage", "on_stage", "gdpr", "created", "custom_fields">>

Step(name, sf, z) ==
    CASE name = "jobs" -> JobsStep(sf, z)
      [] name = "disqualify_reasons" -> DisqualifyReasonsStep(sf, z)
      [] name = "is_disqualified" -> IsDisqualifiedStep(sf, z)
      [] name = "tags" -> TagsStep(sf, z)
      [] name = "skills" -> SkillsStep(sf, z)
      [] name = "talent_pools" -> TalentPoolsStep(sf, z)
      [] name = "has_stage" -> HasStageStep(sf, z)
      [] name = "on_stage" -> OnStageStep(sf, z)
      [] name = "gdpr" -> GdprStep(sf, z)
      [] name = "created" -> CreatedStep(sf, z)
      [] name = "custom_fields" -> CustomFieldsStep(sf, z)

\* the clauses of the first n statements, in order
RECURSIVE Appended(_, _)
Appended(outs, n) == IF n = 0 THEN <<>> ELSE Appended(outs, n - 1) \o outs[n].clauses

\* search_candidates up to its request: the filters it sends, or the error
\* of the first statement that raises
Compile(sf, z) ==
    CHOOSE r \in
        {LET raised == {i \in DOMAIN outs : ~outs[i].ok}
         IN  IF raised = {} THEN Emits(Appended(outs, Len(StatementOrder)))
             ELSE Raises(outs[CHOOSE i \in raised : \A j \in raised : i <= j].offending) :
            outs \in {[i \in 1..Len(StatementOrder) |->
                          Step(StatementOrder[i], sf, z)]}} : TRUE

NotCompiled == [done |-> FALSE, ok |-> FALSE, filters |-> <<>>, offending |-> None]

NotSent == [outcome |-> "none", params |-> None]

InitFilter ==
    /\ zone = 0
    /\ args = <<>>
    /\ search_filter = Defaults
    /\ compiled = NotCompiled
    /\ sent = NotSent

\* the caller puts one more field in the search_filter argument
Supply ==
    /\ sent.outcome = "none"
    /\ Len(args) < MaxSupplied
    /\ \E f \in FieldNames \ {args[i][1] : i \in 1..Len(args)} :
          \E v \in FieldValues[f] : args' = Append(args, <<f, v>>)
    /\ UNCHANGED <<zone, search_filter, compiled, sent>>

\* the caller invokes search_candidates with it: the argument is validated
\* into a CandidateSearchFilter, the body compiles the filters and sends the
\* request with limit, offset and filters_json
Search ==
    /\ sent.outcome = "none"
    /\ IF \E i \in 1..Len(args) : args[i][1] = "limit" /\ ~_limit_max(args[i][2])
       THEN /\ sent' = [outcome |-> "validation error", params |-> None]
            /\ UNCHANGED <<search_filter, compiled>>
       ELSE /\ search_filter' = Validate(args)
            /\ \E out \in {Compile(search_filter', zone)} :
                  /\ compiled' = [done |-> TRUE, ok |-> out.ok, filters |-> out.clauses,
                                  offending |-> out.offending]
                  /\ sent' = IF out.ok
                             THEN [outcome |-> "request",
                                   params |-> Some([limit |-> search_filter'.limit,
                                                    offset |-> search_filter'.offset,
                                                    filters_json |-> out.clauses])]
                             ELSE [outcome |-> "conversion error", params |-> None]
    /\ UNCHANGED <<zone, args>>

-----------------------------------------------------------------------------
(* Concurrent form submissions.  Each request is served by its own coroutine *)
(* on one event loop: a coroutine runs alone from one await to the next, and *)
(* the others run only while it is suspended at an await.                     *)

MaxSubs == 5

\* a faulty variant: dispatch also awaits between the limiter's test and hit
SuspensionPointsAfterTest == {"test", "form"}

\* the awaits of LoginPasswordMiddleware.dispatch on a form submission:
\* request.form() at line 129 is its first
SuspensionPoints == {"form"}

\* a form submission without a session cookie arrives from address c
Arrive(i, c) ==
    /\ subs[i].at = "none"
    /\ \A j \in 1..MaxSubs : j < i => subs[j].at # "none"
    /\ subs' = [subs EXCEPT ![i] = [at |-> "start", client |-> c, window |-> 0]]
    /\ UNCHANGED httpVars

\* the event loop runs submission i's dispatch up to its next await or return:
\* lines 116-129 from the start (the throttled form is returned at line 123),
\* lines 131-160 once the form has been read
Resume(i) ==
    LET s == subs[i]
        c == s.client
        hit == LimiterHit(storage, expirations, c, clock)
        Counted == /\ storage' = hit.storage
                   /\ expirations' = hit.expirations
                   /\ subs' = [subs EXCEPT ![i].at = "form",
                                           ![i].window = hit.expirations[c]]
        Goes(to) == /\ subs' = [subs EXCEPT ![i].at = to]
                    /\ UNCHANGED <<storage, expirations>>
    IN  /\ s.at \in {"start", "tested", "form"}
        /\ IF s.at = "start"
           THEN IF ~LimiterTest(storage, expirations, c, clock) THEN Goes("throttled")
                ELSE IF "test" \in SuspensionPoints THEN Goes("tested")
                ELSE Counted
           ELSE IF s.at = "tested" THEN Counted
           ELSE Goes("processed")
        /\ UNCHANGED <<transport, pathArg, env, clock, resp, subCount, firstSub, matched>>

-----------------------------------------------------------------------------
(* The tools that read the remote API directly: tools/utils.py _get and the  *)
(* detail, talent-pool and query-search tools.  A dict is a function from    *)
(* its keys, a path f"/candidates/{id}" is the pair of its prefix and the id, *)
(* and the result of a call is what it returned or the error it raised,      *)
(* with the GETs it made.                                                     *)

\* dict.get(key, default)
DictGet(d, key, default) == IF key \in DOMAIN d THEN d[key] ELSE default

PathTalentPools == <<"/talent_pools", "">>
PathSearch == <<"/search/new/candidates", "">>

Returns(value, gets) ==
    [ok |-> TRUE, value |-> value, error |-> [kind |-> "", status_code |-> 0, text |-> ""],
     gets |-> gets]

Raises_(kind, status_code, text, gets) ==
    [ok |-> FALSE, value |-> <<>>,
     error |-> [kind |-> kind, status_code |-> status_code, text |-> text],
     gets |-> gets]

\* a faulty variant: a failed GET is attempted a second time
_get_retrying(path, params) ==
    LET resp_ == remote[path]
        request == [path |-> path, params |-> params]
    IN  IF resp_.status_code \in 200..299
        THEN Returns(resp_.json, <<request>>)
        ELSE Raises_("Recruitee API failed", resp_.status_code, resp_.text,
                     <<request, request>>)

\* _get(path, params): one GET; raise_for_status() turns every answer outside
\* 2xx into HTTPStatusError, re-raised as ValueError with its code and text
_get(path, params) ==
    LET resp_ == remote[path]
        request == [path |-> path, params |-> params]
    IN  IF resp_.status_code \in 200..299
        THEN Returns(resp_.json, <<request>>)
        ELSE Raises_("Recruitee API failed", resp_.status_code, resp_.text, <<request>>)

\* _get_candidates_details(candidate_ids, fields)
_get_candidates_details(candidate_ids, fields) ==
    LET RECURSIVE Loop(_, _, _)
        Loop(ids, details, gets) ==
            IF ids = <<>> THEN Returns(details, gets)
            ELSE LET data == _get(<<"/candidates/", Head(ids)>>, None)
                     candidate_data == DictGet(data.value, "candidate", <<>>)
                     filtered_data ==
                         [field \in {fields[i] : i \in DOMAIN fields}
                                       \cap DOMAIN candidate_data |->
                             candidate_data[field]]
                 IN  IF ~data.ok THEN [data EXCEPT !.gets = gets \o @]
                     ELSE Loop(Tail(ids),
                               Append(details, IF fields = <<>> THEN candidate_data
                                               ELSE filtered_data),
                               gets \o data.gets)
    IN  Loop(candidate_ids, <<>>, <<>>)

\* _get_offers_details(offer_ids, fields): a dict keyed by offer id, or the
\* empty list when no id is given
_get_offers_details(offer_ids, fields) ==
    LET RECURSIVE Loop(_, _, _)
        Loop(ids, details, gets) ==
            IF ids = <<>> THEN Returns(details, gets)
            ELSE LET offer_id == Head(ids)
                     data == _get(<<"/offers/", offer_id>>, None)
                     offer_data == DictGet(data.value, "offer", <<>>)
                     filtered_data ==
                         [field \in {fields[i] : i \in DOMAIN fields} |->
                             DictGet(offer_data, field, "Field doesn't exist")]
                     entry == IF fields = <<>> THEN offer_data ELSE filtered_data
                 IN  IF ~data.ok THEN [data EXCEPT !.gets = gets \o @]
                     ELSE Loop(Tail(ids),
                               [id \in DOMAIN details \cup {offer_id} |->
                                   IF id = offer_id THEN entry ELSE details[id]],
                               gets \o data.gets)
    IN  Loop(offer_ids, <<>>, <<>>)

\* a faulty variant: the status is compared without regard to case
ArchivedAnyCase == {"archived", "Archived"}

\* the status list_talent_pools compares with
Archived == {"archived"}

Scopes == {"not_archived", "archived", "all"}

\* list_talent_pools(scope) over what _fetch_talent_pools() gives on a miss;
\* a scope outside the Literal is refused when the arguments are validated
list_talent_pools(scope) ==
    LET data == _get(PathTalentPools, None)
        fetched == DictGet(data.value, "talent_pools", <<>>)
        Keep(tp) == CASE scope = "all" -> TRUE
                      [] scope = "not_archived" -> tp.status \notin Archived
                      [] scope = "archived" -> tp.status \in Archived
        kept == SelectSeq(fetched, Keep)
    IN  IF scope \notin Scopes THEN Raises_("Invalid scope", 0, "", <<>>)
        ELSE IF ~data.ok THEN data
        ELSE Returns([i \in DOMAIN kept |->
                         [id |-> kept[i].id, title |-> kept[i].title,
                          status |-> kept[i].status]],
                     data.gets)

\* search_candidate_by_query(query, search_name, limit, offset)
search_candidate_by_query(query, search_name, limit, offset) ==
    LET filters == <<[field |-> "all", query |-> query]>>
        params == Some([limit |-> limit, offset |-> offset, filters_json |-> filters])
        data == _get(PathSearch, params)
        hits == DictGet(data.value, "hits", <<>>)
        Keep(c) == ~search_name \/ c.name = query
        kept == SelectSeq(hits, Keep)
    IN  IF query = "" THEN Returns(<<>>, <<>>)
        ELSE IF limit > 10000
        THEN Raises_("Recruitee caps limit at 10 000 per call.", 0, "", <<>>)
        ELSE IF ~data.ok THEN data
        ELSE Returns([i \in DOMAIN kept |->
                         [id |-> kept[i].id, name |-> kept[i].name,
                          emails |-> kept[i].emails]],
                     data.gets)

\* the arguments the tools are called with
IdLists == {<<>>, <<"1">>, <<"2">>, <<"1", "2">>, <<"2", "1">>, <<"1", "1">>}
FieldLists == {<<>>, <<"name">>, <<"phone">>, <<"nope">>, <<"name", "nope">>,
               <<"phone", "name">>}

\* what the remote API may answer
Answer(status_code, text, json) ==
    [status_code |-> status_code, text |-> text, json |-> json]

Remotes ==
    LET Ann == ("id" :> "1" @@ "name" :> "Ann" @@ "phone" :> "555")
        Bob == ("id" :> "2" @@ "name" :> "Bob")
        Pool(id, title, status) ==
            [id |-> id, title |-> title, status |-> status, candidates_count |-> "7"]
        Hit(id, name) == [id |-> id, name |-> name, emails |-> <<"a@b.c">>, phones |-> <<>>]
        Details(key) ==
            [first |-> {Answer(200, "", key :> Ann), Answer(200, "", <<>>),
                        Answer(404, "not found", <<>>)},
             second |-> {Answer(200, "", key :> Bob), Answer(503, "busy", <<>>),
                         Answer(302, "", <<>>)}]
        Pools == {Answer(200, "", "talent_pools" :>
                      <<Pool("1", "Old", "archived"), Pool("2", "New", "active"),
                        Pool("3", "Odd", "Archived"), Pool("4", "Past", "archived")>>),
                  Answer(200, "", "talent_pools" :> <<Pool("2", "New", "active")>>),
                  Answer(200, "", <<>>),
                  Answer(500, "down", <<>>)}
        Hits == {Answer(200, "", "hits" :>
                     <<Hit("1", "Ann"), Hit("2", "Bob"), Hit("3", "Ann Lee"),
                       Hit("4", "Ann")>>),
                 Answer(200, "", "hits" :> <<Hit("2", "Bob")>>),
                 Answer(200, "", <<>>),
                 Answer(429, "slow down", <<>>)}
    IN  {(<<"/candidates/", "1">> :> c1 @@ <<"/candidates/", "2">> :> c2
          @@ <<"/offers/", "1">> :> o1 @@ <<"/offers/", "2">> :> o2
          @@ PathTalentPools :> tp @@ PathSearch :> h) :
            c1 \in Details("candidate").first, c2 \in Details("candidate").second,
            o1 \in Details("offer").first, o2 \in Details("offer").second,
            tp \in Pools, h \in Hits}

\* a remote API that is not reached
NoRemote == [p \in {PathTalentPools} |-> Answer(404, "", <<>>)]

\* no tool has been called.  These tools leave no state behind, so one call
\* is followed from each remote API
NoOut == [tool |-> "", args |-> <<>>, res |-> Returns(<<>>, <<>>)]

\* the tool get_candidates_details
get_candidates_details ==
    /\ toolOut = NoOut
    /\ \E candidate_ids \in IdLists, fields \in FieldLists :
          toolOut' = [tool |-> "get_candidates_details",
                  args |-> [ids |-> candidate_ids, fields |-> fields],
                  res |-> _get_candidates_details(candidate_ids, fields)]
    /\ UNCHANGED remote

\* the tool get_offers_details
get_offers_details ==
    /\ toolOut = NoOut
    /\ \E offer_ids \in IdLists, fields \in FieldLists :
          toolOut' = [tool |-> "get_offers_details",
                  args |-> [ids |-> offer_ids, fields |-> fields],
                  res |-> _get_offers_details(offer_ids, fields)]
    /\ UNCHANGED remote

\* the tool list_talent_pools
ListTalentPools ==
    /\ toolOut = NoOut
    /\ \E scope \in Scopes \cup {"Archived"} :
          toolOut' = [tool |-> "list_talent_pools", args |-> [scope |-> scope],
                  res |-> list_talent_pools(scope)]
    /\ UNCHANGED remote

\* the tool search_candidate_by_query
SearchCandidateByQuery ==
    /\ toolOut = NoOut
    /\ \E query \in {"", "Ann", "Zed"}, search_name \in BOOLEAN, limit \in {100, 10001} :
          toolOut' = [tool |-> "search_candidate_by_query",
                  args |-> [query |-> query, search_name |-> search_name,
                            limit |-> limit, offset |-> 0],
                  res |-> search_candidate_by_query(query, search_name, limit, 0)]
    /\ UNCHANGED remote

-----------------------------------------------------------------------------
(* tools/utils.py: markdown_to_url.  The file name is built from the local   *)
(* time to the second; the document is the page rendered from the input.     *)

MaxDocs == 3
MaxDocClock == 2

\* the tool markdown_to_url: an empty input returns "" and an unset base URL
\* raises, both before anything is written; otherwise the page is written to
\* report_<timestamp>.html, replacing a file of that name, and its URL returned
markdown_to_url ==
    \E markdown_str \in {"", "# A", "# B"} :
        LET timestamp == clock
            filename == <<"report_", timestamp, ".html">>
            full_html == [rendered |-> markdown_str]
        IN  /\ Len(issued) < MaxDocs
            /\ IF markdown_str = "" \/ ~Truthy(BASE_DEPLOY_URL)
               THEN UNCHANGED <<files, issued>>
               ELSE /\ files' = [f \in DOMAIN files \cup {filename} |->
                                    IF f = filename THEN full_html ELSE files[f]]
                    /\ issued' = Append(issued,
                                        [url |-> <<Get(BASE_DEPLOY_URL), "/documents/", filename>>,
                                         filename |-> filename,
                                         markdown_str |-> markdown_str])
            /\ UNCHANGED BASE_DEPLOY_URL

\* a second passes on the clock datetime.now() reads
SecondPasses ==
    /\ clock < MaxDocClock
    /\ clock' = clock + 1
    /\ UNCHANGED <<transport, pathArg, env, storage, expirations, resp,
                   subCount, firstSub, matched>>

-----------------------------------------------------------------------------
(* utils/server_config.py and app.py: the Accept header of MCP requests *)

\* s.lower()
lower(s) ==
    LET upper == <<"A", "B", "C", "D", "E", "F", "G", "H", "I", "J", "K", "L",
                   "M", "N", "O", "P", "Q", "R", "S", "T", "U", "V", "W", "X",
                   "Y", "Z">>
        lowers == <<"a", "b", "c", "d", "e", "f", "g", "h", "i", "j", "k", "l",
                    "m", "n", "o", "p", "q", "r", "s", "t", "u", "v", "w", "x",
                    "y", "z">>
        LowerChar(c) ==
            IF \E k \in 1..Len(upper) : upper[k] = c
            THEN lowers[CHOOSE k \in 1..Len(upper) : upper[k] = c] ELSE c
    IN  IF s = <<>> THEN <<>> ELSE [i \in 1..Len(s) |-> LowerChar(s[i])]

\* sep.join(parts)
RECURSIVE join(_, _)
join(sep, parts) ==
    IF parts = <<>> THEN <<>>
    ELSE IF Len(parts) = 1 THEN parts[1]
    ELSE parts[1] \o sep \o join(sep, Tail(parts))

\* s.rstrip(c)
RECURSIVE rstrip(_, _)
rstrip(s, c) ==
    IF s # <<>> /\ s[Len(s)] = c THEN rstrip(SubSeq(s, 1, Len(s)-1), c) ELSE s

REQUIRED_MEDIA_TYPES ==
    <<<<"a", "p", "p", "l", "i", "c", "a", "t", "i", "o", "n", "/", "j", "s", "o", "n">>,
      <<"t", "e", "x", "t", "/", "e", "v", "e", "n", "t", "-", "s", "t", "r", "e", "a", "m">>>>

\* [part.strip() for part in value.split(",") if part.strip()]
Parts(value) ==
    LET split == Split(value, ",")
    IN  SelectSeq([i \in 1..Len(split) |-> Strip(split[i])],
                  LAMBDA part : part # <<>>)

\* a faulty variant: the media type is compared as the client wrote it
media_type_verbatim(normalized) == Strip(Head(Split(normalized, ";")))

\* normalized.split(";", 1)[0].strip().lower()
media_type(normalized) == lower(Strip(Head(Split(normalized, ";"))))

_normalize_accept_header(raw_value) ==
    LET values == IF Truthy(raw_value) THEN Parts(Get(raw_value)) ELSE <<>>
        seen_media_types == {media_type(values[i]) : i \in 1..Len(values)}
    IN  join(<<",", " ">>,
             values \o SelectSeq(REQUIRED_MEDIA_TYPES,
                                 LAMBDA m : m \notin seen_media_types))

\* MCPAcceptHeaderMiddleware(app, mcp_path=mcp_path)._should_mutate
_should_mutate(mcp_path, request_path) ==
    LET _mcp_path == IF rstrip(mcp_path, "/") # <<>>
                     THEN rstrip(mcp_path, "/") ELSE <<"/">>
    IN  IF _mcp_path = <<"/">> THEN TRUE
        ELSE \/ request_path = _mcp_path
             \/ StartsWith(request_path, _mcp_path \o <<"/">>)

\* MCPAcceptHeaderMiddleware.dispatch: the Accept header call_next receives
MCPAcceptHeaderMiddleware(mcp_path, request_path, accept) ==
    IF _should_mutate(mcp_path, request_path)
    THEN Some(_normalize_accept_header(accept))
    ELSE accept

\* ensure_event_stream_accept: the Accept header call_next receives
ensure_event_stream_accept(args_path, request_path, accept) ==
    LET mcp_path == IF Truthy(args_path)
                    THEN rstrip(Get(args_path), "/") ELSE PathMcp
        parts == IF Truthy(accept) THEN Parts(Get(accept)) ELSE <<>>
        has(m) == \E i \in 1..Len(parts) : media_type(parts[i]) = m
        has_application_json == has(REQUIRED_MEDIA_TYPES[1])
        has_event_stream == has(REQUIRED_MEDIA_TYPES[2])
        updated_parts ==
            (IF has_application_json THEN <<>> ELSE <<REQUIRED_MEDIA_TYPES[1]>>)
            \o parts
            \o (IF has_event_stream THEN <<>> ELSE <<REQUIRED_MEDIA_TYPES[2]>>)
    IN  IF /\ rstrip(request_path, "/") = mcp_path
           /\ ~has_event_stream \/ ~has_application_json
        THEN Some(join(<<",", " ">>, updated_parts))
        ELSE accept

\* the Accept header as the routes receive it: ensure_event_stream_accept
\* was added after MCPAcceptHeaderMiddleware and so runs before it; both are
\* installed by the streamable-http launch only.  The path handed to
\* MCPAcceptHeaderMiddleware is args.path, or app.state.path, which fastmcp
\* sets to its default /mcp
AcceptMiddlewares(t, path, request_path, accept) ==
    LET args_path == parse_args(t, path)
        target_path == IF Truthy(args_path) THEN Get(args_path) ELSE PathMcp
    IN  IF t = "streamable-http"
        THEN MCPAcceptHeaderMiddleware(
                 target_path, request_path,
                 ensure_event_stream_accept(args_path, request_path, accept))
        ELSE accept

\* Accept headers a client may send
AcceptHeaders ==
    {None, Some(<<>>),
     Some(<<"a", "p", "p", "l", "i", "c", "a", "t", "i", "o", "n", "/", "j", "s", "o", "n">>),
     Some(<<"a", "p", "p", "l", "i", "c", "a", "t", "i", "o", "n", "/", "j", "s", "o", "n", ";", "q", "=", "0", ".", "5">>),
     Some(<<"t", "e", "x", "t", "/", "e", "v", "e", "n", "t", "-", "s", "t", "r", "e", "a", "m">>),
     Some(<<"t", "e", "x", "t", "/", "h", "t", "m", "l">>),
     Some(<<"*", "/", "*">>),
     Some(<<"A", "p", "p", "l", "i", "c", "a", "t", "i", "o", "n", "/", "J", "S", "O", "N", " ", ";", " ", "q", "=", "0", ".", "5", ",", " ", "t", "e", "x", "t", "/", "h", "t", "m", "l">>),
     Some(<<" ", "t", "e", "x", "t", "/", "e", "v", "e", "n", "t", "-", "s", "t", "r", "e", "a", "m", " ", ",", ",", " ", "A", "P", "P", "L", "I", "C", "A", "T", "I", "O", "N", "/", "j", "s", "o", "n">>),
     Some(<<"t", "e", "x", "t", "/", "e", "v", "e", "n", "t", "-", "s", "t", "r", "e", "a", "m", ";", "q", "=", "0", ".", "1", ",", "a", "p", "p", "l", "i", "c", "a", "t", "i", "o", "n", "/", "j", "s", "o", "n">>),
     Some(<<"a", "p", "p", "l", "i", "c", "a", "t", "i", "o", "n", "/", "j", "s", "o", "n", ",", " ", "a", "p", "p", "l", "i", "c", "a", "t", "i", "o", "n", "/", "j", "s", "o", "n", ";", "q", "=", "0", ".", "2">>),
     Some(<<",">>),
     Some(<<"a", "p", "p", "l", "i", "c", "a", "t", "i", "o", "n", "/", "j", "s", "o", "n", "x">>),
     Some(<<"a", "p", "p", "l", "i", "c", "a", "t", "i", "o", "n", "/", "j", "s", "o", "n", ",", " ", "t", "e", "x", "t", "/", "e", "v", "e", "n", "t", "-", "s", "t", "r", "e", "a", "m">>)}

NoAccept == [path |-> <<>>, sent |-> None, received |-> None, by |-> "none"]

\* the server answers one request that carries an Accept header
AcceptRequest ==
    \E p \in {PathMcp, PathMcp \o <<"/">>, PathMcp \o <<"/", "x">>, PathRpc,
              PathDocuments \o <<"/", "a">>, <<"/">>},
       h \in {None, Some(BearerPrefix \o TokenX)},
       accept \in AcceptHeaders :
        LET request == MkRequest(p, IF StartsWith(p, PathDocuments)
                                    THEN "GET" ELSE "POST",
                                 h, Some(SecretS), "10.0.0.1", NoForm)
        IN  /\ Handle(request)
            /\ accepted' =
                   [path |-> p, sent |-> accept,
                    received |-> AcceptMiddlewares(transport, pathArg, p, accept),
                    by |-> Pipeline(request).resp.by]

-----------------------------------------------------------------------------
(* The state outside the gates, the caches and the filter compiler *)

\* no form submission has arrived.  Of a submission, at is where its coroutine
\* stands ("none" before the request arrives) and window is history: the end
\* of the limiter window that counted it
InitOther ==
    /\ subs = [i \in 1..MaxSubs |-> [at |-> "none", client |-> "", window |-> 0]]
    /\ toolOut = NoOut
    /\ files = <<>>
    /\ issued = <<>>
    /\ accepted = NoAccept

-----------------------------------------------------------------------------
(* The specifications *)

\* every launch and every setting of the bearer token, with the document
\* secrets set, unset, or set in part
InitGate ==
    /\ transport \in Transports
    /\ pathArg \in PathArgs
    /\ \E b \in {None, Some(<<>>), Some(TokenX), Some(TokenY), Some(TokenXLower)} :
           env \in {Env(b, Some(SecretS), Some(UserAbc), Some(PassLt)),
                    Env(b, None, None, None),
                    Env(b, Some(SecretS), None, None)}
    /\ InitHttp
    /\ InitCache
    /\ InitFilter
    /\ InitOther
    /\ remote = NoRemote
    /\ BASE_DEPLOY_URL = None

\* the streamable-http launch under every setting of the document secrets
InitLogin ==
    /\ transport = "streamable-http"
    /\ pathArg = None
    /\ env \in {Env(Some(TokenX), Some(SecretS), Some(UserAbc), Some(PassLt)),
                Env(Some(TokenX), Some(SecretS), Some(UserAb), Some(PassLt)),
                Env(Some(TokenX), Some(SecretS), Some(UserAbc), Some(PassBlank)),
                Env(Some(TokenX), None, Some(UserAbc), Some(PassLt)),
                Env(Some(TokenX), Some(SecretS), None, Some(PassLt)),
                Env(Some(TokenX), Some(SecretS), Some(UserAbc), Some(<<>>))}
    /\ InitHttp
    /\ InitCache
    /\ InitFilter
    /\ InitOther
    /\ remote = NoRemote
    /\ BASE_DEPLOY_URL = None

NextGate == RpcRequest /\ UNCHANGED <<cacheVars, filterVars, otherVars>>

NextLogin ==
    \/ DocRequest /\ UNCHANGED <<cacheVars, filterVars, otherVars>>
    \/ Tick /\ UNCHANGED <<cacheVars, filterVars, otherVars>>
    \/ SessionAges /\ UNCHANGED <<cacheVars, filterVars, otherVars>>

SpecGate == InitGate /\ [][NextGate]_vars

SpecLogin == InitLogin /\ [][NextLogin]_vars

HttpIdle == UNCHANGED <<transport, pathArg, env, storage, expirations, resp,
                        subCount, firstSub, matched>>

CacheOnly == HttpIdle /\ UNCHANGED <<filterVars, otherVars>>

NextCache ==
    \/ (\E tool \in CachedTools : Call(tool)) /\ CacheOnly
    \/ (\E k \in Slots : FetchSucceeds(k)) /\ CacheOnly
    \/ (\E k \in Slots : FetchFails(k)) /\ CacheOnly
    \/ (\E k \in Slots : TimerFires(k)) /\ CacheOnly
    \/ Await /\ CacheOnly
    \/ Elapse /\ CacheOnly

InitCacheSpec ==
    /\ transport = "stdio"
    /\ pathArg = None
    /\ env = Env(None, None, None, None)
    /\ InitHttp
    /\ InitCache
    /\ InitFilter
    /\ InitOther
    /\ remote = NoRemote
    /\ BASE_DEPLOY_URL = None

SpecCache == InitCacheSpec /\ [][NextCache]_vars

InitFilterSpec ==
    /\ transport = "stdio"
    /\ pathArg = None
    /\ env = Env(None, None, None, None)
    /\ InitHttp
    /\ InitCache
    /\ zone \in LocalZones
    /\ args = <<>>
    /\ search_filter = Defaults
    /\ compiled = NotCompiled
    /\ sent = NotSent
    /\ InitOther
    /\ remote = NoRemote
    /\ BASE_DEPLOY_URL = None

NextFilter ==
    \/ Supply /\ UNCHANGED <<httpVars, cacheVars, otherVars>>
    \/ Search /\ UNCHANGED <<httpVars, cacheVars, otherVars>>

SpecFilter == InitFilterSpec /\ [][NextFilter]_vars

\* iso_to_unix on its own: search_candidates called with created_from alone,
\* a date, a time of day and a suffix put together
InitIso ==
    /\ transport = "stdio"
    /\ pathArg = None
    /\ env = Env(None, None, None, None)
    /\ InitHttp
    /\ InitCache
    /\ zone \in LocalZones
    /\ \E d \in {<<"2", "0", "2", "5", "-", "0", "5", "-", "2", "0">>,
                  <<"1", "9", "7", "0", "-", "0", "1", "-", "0", "1">>,
                  <<"2", "0", "2", "4", "-", "0", "2", "-", "2", "9">>,
                  <<"1", "9", "6", "9", "-", "1", "2", "-", "3", "1">>,
                  <<"2", "0", "2", "5", "-", "0", "2", "-", "2", "9">>,
                  <<"2", "0", "2", "5", "-", "1", "3", "-", "0", "1">>,
                  <<"2", "0", "-", "0", "5", "-", "2", "0", "2", "5">>},
          t \in {<<"T", "1", "2", ":", "3", "0", ":", "0", "0">>,
                  <<"T", "0", "0", ":", "0", "0", ":", "0", "0">>,
                  <<"T", "2", "3", ":", "5", "9", ":", "5", "9">>,
                  <<"T", "1", "2", ":", "6", "0", ":", "0", "0">>,
                  <<" ", "1", "2", ":", "3", "0", ":", "0", "0">>},
          x \in {<<"Z">>,
                  <<"+", "0", "0", ":", "0", "0">>,
                  <<"+", "0", "2", ":", "0", "0">>,
                  <<"-", "0", "5", ":", "3", "0">>,
                  <<>>,
                  <<"Z", "Z">>,
                  <<"+", "2", ":", "0", "0">>} :
          args = <<<<"created_from", Some(d \o t \o x)>>>>
    /\ search_filter = Defaults
    /\ compiled = NotCompiled
    /\ sent = NotSent
    /\ InitOther
    /\ remote = NoRemote
    /\ BASE_DEPLOY_URL = None

NextIso == Search /\ UNCHANGED <<httpVars, cacheVars, otherVars>>

SpecIso == InitIso /\ [][NextIso]_vars

\* concurrent form submissions to the configured login gate
InitRaceSpec ==
    /\ transport = "streamable-http"
    /\ pathArg = None
    /\ env = Env(Some(TokenX), Some(SecretS), Some(UserAbc), Some(PassLt))
    /\ InitHttp
    /\ InitCache
    /\ InitFilter
    /\ InitOther
    /\ remote = NoRemote
    /\ BASE_DEPLOY_URL = None

NextRace ==
    \/ (\E i \in 1..MaxSubs, c \in Clients : Arrive(i, c))
           /\ UNCHANGED <<cacheVars, filterVars, remote, toolOut, docVars, accepted>>
    \/ (\E i \in 1..MaxSubs : Resume(i))
           /\ UNCHANGED <<cacheVars, filterVars, remote, toolOut, docVars, accepted>>
    \/ Tick /\ UNCHANGED <<cacheVars, filterVars, otherVars>>

SpecRace == InitRaceSpec /\ [][NextRace]_vars

\* tool calls against every remote API of the model
InitToolsSpec ==
    /\ transport = "stdio"
    /\ pathArg = None
    /\ env = Env(None, None, None, None)
    /\ InitHttp
    /\ InitCache
    /\ InitFilter
    /\ InitOther
    /\ remote \in Remotes
    /\ BASE_DEPLOY_URL = None

ToolsOnly ==
    UNCHANGED <<httpVars, cacheVars, filterVars, subs, docVars, accepted>>

NextTools ==
    \/ get_candidates_details /\ ToolsOnly
    \/ get_offers_details /\ ToolsOnly
    \/ ListTalentPools /\ ToolsOnly
    \/ SearchCandidateByQuery /\ ToolsOnly

SpecTools == InitToolsSpec /\ [][NextTools]_vars

\* calls of markdown_to_url under every setting of the base URL
InitDocsSpec ==
    /\ transport = "stdio"
    /\ pathArg = None
    /\ env = Env(None, None, None, None)
    /\ InitHttp
    /\ InitCache
    /\ InitFilter
    /\ InitOther
    /\ remote = NoRemote
    /\ BASE_DEPLOY_URL \in {None, Some(<<>>),
                            Some(<<"h", "t", "t", "p", "s", ":", "/", "/", "h">>)}

NextDocs ==
    \/ markdown_to_url
           /\ UNCHANGED <<httpVars, cacheVars, filterVars, subs, remote, toolOut,
                         accepted>>
    \/ SecondPasses
           /\ UNCHANGED <<cacheVars, filterVars, otherVars>>

SpecDocs == InitDocsSpec /\ [][NextDocs]_vars

\* the streamable-http launch with its gates configured, under every --path
InitAcceptSpec ==
    /\ transport = "streamable-http"
    /\ pathArg \in PathArgs
    /\ env = Env(Some(TokenX), Some(SecretS), Some(UserAbc), Some(PassLt))
    /\ InitHttp
    /\ InitCache
    /\ InitFilter
    /\ InitOther
    /\ remote = NoRemote
    /\ BASE_DEPLOY_URL = None

NextAccept ==
    AcceptRequest
    /\ UNCHANGED <<cacheVars, filterVars, subs, remote, toolOut, docVars>>

SpecAccept == InitAcceptSpec /\ [][NextAccept]_vars

-----------------------------------------------------------------------------
(* Claims about the gates *)

LoginConfigured ==
    /\ Truthy(env.DOCUMENTS_TOKEN)
    /\ Truthy(env.DOCUMENTS_USERNAME)
    /\ Truthy(env.DOCUMENTS_PASSWORD)

RateLimitError == "Too many login attempts. Please try again later."

ToolCallsPassedBearerGate ==
    resp.by = "tool" => "bearer" \in resp.passed

\* C3: with the login gate configured, it forwards a request to a document
\* path exactly when the auth_token cookie equals DOCUMENTS_TOKEN, whatever
\* the method and the limiter's state; a login that succeeds is answered 302
\* by the gate itself
LoginGateForwardsOnlySession ==
    LoginConfigured =>
        \A r \in DocRequests :
            LET out == LoginDispatch(r, env, storage, expirations, clock)
            IN  /\ out.forward <=> r.auth_token = env.DOCUMENTS_TOKEN
                /\ out.resp.status = 302 => ~out.forward

\* C3 witness: a request was forwarded to the document handler after an
\* earlier login had been answered (the limiter has counted a submission)
DocumentServed ==
    /\ LoginConfigured
    /\ resp.by = "documents"
    /\ \E c \in Clients : subCount[c] > 0

\* C4: the 4th form submission of an address, made less than 60 seconds after
\* its 1st, is answered with the login form carrying the rate-limit error and
\* leaves the limiter as it was, whatever credentials it carries
FourthSubmissionThrottled ==
    LoginConfigured =>
        \A r \in DocRequests :
            (/\ IsSubmission(r)
             /\ subCount[r.client] = 3
             /\ clock - firstSub[r.client] < 60) =>
                LET out == LoginDispatch(r, env, storage, expirations, clock)
                IN  /\ ~out.forward
                    /\ out.resp = _show_login_form(RateLimitError)
                    /\ out.storage = storage
                    /\ out.expirations = expirations

\* C4 witness: an address has made its 4th submission less than 60 seconds
\* after its 1st and the answer is the rate-limit error
FourthSubmissionRejected ==
    \E c \in Clients :
        /\ subCount[c] = 4
        /\ clock - firstSub[c] < 60
        /\ clock > firstSub[c]
        /\ resp.error = RateLimitError

\* an unthrottled form submission carrying the configured credentials
MatchingSubmission(r) ==
    /\ IsSubmission(r)
    /\ LimiterTest(storage, expirations, r.client, clock)
    /\ r.form.username = env.DOCUMENTS_USERNAME
    /\ r.form.password = env.DOCUMENTS_PASSWORD

LoginRedirect(r) ==
    [MkResponse(302, "login", "", env.DOCUMENTS_TOKEN, Some(r.path))
        EXCEPT !.passed = {}]

AcceptableUsername(u) ==
    /\ Len(u) >= 3 /\ Len(u) <= 50
    /\ \A i \in 1..Len(u) : u[i] \in UsernameChars
AcceptablePassword(w) ==
    /\ Strip(w) # <<>>
    /\ Len(escape(Strip(w))) <= 128

BearerGateRunsFirst ==
    Middlewares(transport) # <<>> =>
        \A r \in RpcRequests \cup DocRequests :
            LET seen == Seen(Middlewares(transport), r)
            IN  \A i \in DOMAIN seen :
                    seen[i] = "login" => \E j \in 1..(i - 1) : seen[j] = "bearer"

\* C16, amended: with both gates installed the login gate runs first on
\* every request and the bearer gate runs exactly on the requests the login
\* gate has forwarded; no request is answered differently than it would be
\* with the gates in the other order.
LoginGateRunsFirst ==
    Middlewares(transport) # <<>> =>
        \A r \in RpcRequests \cup DocRequests :
            LET seen == Seen(Middlewares(transport), r)
            IN  /\ seen[1] = "login"
                /\ (\E i \in DOMAIN seen : seen[i] = "bearer")
                      <=> LoginDispatch(r, env, storage, expirations, clock).forward
                /\ \A i \in DOMAIN seen : seen[i] = "bearer" => i = 2
                /\ Through(<<"bearer", "login">>, {}, r, transport, pathArg, env,
                           storage, expirations, clock) = Pipeline(r)

\* a request with the bearer token was answered by the MCP handler after
\* the login gate and then the bearer gate had run on it
ToolCallThroughBothGates ==
    /\ resp.by = "tool"
    /\ \E r \in RpcRequests :
          /\ Pipeline(r).resp = resp
          /\ Seen(Middlewares(transport), r) = <<"login", "bearer">>

\* C17: a gate forwards, with no response of its own, every request whose
\* path does not start with its prefix (/mcp for the bearer gate, /documents
\* for the login gate), whatever the method, header and cookie and whether
\* or not its secrets are set, and the login gate then leaves the limiter's
\* counters alone; so a request outside /mcp is answered the same whatever
\* MCP_BEARER_TOKEN is, and a request outside /documents the same whatever
\* the document secrets are.
UnmatchedPathsPassThrough ==
    \A q \in RpcRequests \cup DocRequests, m \in {"GET", "HEAD", "POST"} :
      \E r \in {[q EXCEPT !.method = m]} :
        /\ ~StartsWith(r.path, PathMcp) =>
              /\ BearerDispatch(r, env) = [forward |-> TRUE, resp |-> NoResponse]
              /\ \A b \in {None, Some(TokenX)} :
                    Through(Middlewares(transport), {}, r, transport, pathArg,
                            [env EXCEPT !.MCP_BEARER_TOKEN = b],
                            storage, expirations, clock) = Pipeline(r)
        /\ ~StartsWith(r.path, PathDocuments) =>
              /\ LoginDispatch(r, env, storage, expirations, clock)
                    = [forward |-> TRUE, resp |-> NoResponse,
                       storage |-> storage, expirations |-> expirations]
              /\ \A d \in {None, Some(SecretS)} :
                    Through(Middlewares(transport), {}, r, transport, pathArg,
                            [env EXCEPT !.DOCUMENTS_TOKEN = d, !.DOCUMENTS_USERNAME = d,
                                        !.DOCUMENTS_PASSWORD = d],
                            storage, expirations, clock) = Pipeline(r)

\* with no document secret set, a request to /mcp went through the login
\* gate and the bearer gate and reached the MCP handler
ToolCallWithoutDocumentSecrets ==
    /\ Middlewares(transport) = <<"login", "bearer">>
    /\ ~Truthy(env.DOCUMENTS_TOKEN)
    /\ ~Truthy(env.DOCUMENTS_USERNAME)
    /\ resp.by = "tool"
    /\ resp.status = 200

\* C18: the limiter never counts more than 3 submissions of an address; a
\* window ends 60 seconds after the submission that began it and no later
\* submission, counted or rejected, moves its end; a submission made when no
\* window is running, the last one having ended, is treated as by a limiter
\* that has never seen the address: its credentials are processed and it
\* begins a new window with count 1.
CounterCappedAndReset ==
    LoginConfigured =>
        /\ \A c \in Clients :
              /\ storage[c] <= 3
              /\ storage[c] > 0 =>
                    \/ expirations[c] = firstSub[c] + 60
                    \/ /\ expirations[c] >= firstSub[c] + 60 + 60
                       /\ expirations[c] <= clock + 60
        /\ \A r \in DocRequests :
              IsSubmission(r) =>
                  \E c \in {r.client} :
                  \E out \in {LoginDispatch(r, env, storage, expirations, clock)} :
                      /\ out.storage[c] <= 3
                      /\ (storage[c] > 0 /\ clock < expirations[c]) =>
                            out.expirations[c] = expirations[c]
                      /\ expirations[c] <= clock =>
                            /\ out = LoginDispatch(r, env, [storage EXCEPT ![c] = 0],
                                                   [expirations EXCEPT ![c] = 0], clock)
                            /\ out.resp.error # RateLimitError
                            /\ out.storage[c] = 1
                            /\ out.expirations[c] = clock + 60

\* an address that had 3 submissions counted in a window has, that window
\* ended, made another, which was processed and began a new window
SubmissionProcessedAfterWindow ==
    \E c \in Clients :
        /\ subCount[c] = 4
        /\ firstSub[c] + 60 <= clock
        /\ storage[c] = 1
        /\ expirations[c] = clock + 60
        /\ resp.by = "login"
        /\ resp.error # RateLimitError

\* C19 as stated: once the 7 days of max_age have passed since a login, the
\* login gate no longer forwards a request presenting the token it issued.
SessionTokenExpires ==
    (LoginConfigured /\ clock >= max_age) =>
        \A r \in DocRequests :
            r.auth_token = resp.cookie =>
                ~LoginDispatch(r, env, storage, expirations, clock).forward

\* C19, amended: the token a login issues is the configured DOCUMENTS_TOKEN
\* itself, and the login gate forwards every request presenting it, at
\* whatever time: within the 7 days of the cookie's max_age and after them.
SessionTokenNeverExpires ==
    LoginConfigured =>
        /\ resp.status = 302 => resp.cookie = env.DOCUMENTS_TOKEN
        /\ \A r \in DocRequests :
              (r.auth_token = env.DOCUMENTS_TOKEN
                  \/ (resp.status = 302 /\ r.auth_token = resp.cookie)) =>
                  /\ LoginDispatch(r, env, storage, expirations, clock).forward
                  /\ Pipeline(r).resp.by = "documents"

\* more than 7 days after a login a request presenting the token was served
DocumentServedAfterSevenDays ==
    /\ LoginConfigured
    /\ clock >= max_age
    /\ resp.by = "documents"
    /\ resp.passed = {"login"}

\* C26: the bearer gate forwards a request to a protected path only when its
\* Authorization header is "Bearer " immediately followed by the configured
\* token and nothing else: every request to a path under /mcp that the gate
\* has forwarded carried exactly that header
OnlyExactBearerHeaderForwarded ==
    [][\A r \in RpcRequests :
          (Handle(r) /\ "bearer" \in resp'.passed)
              => r.authorization = Some(BearerPrefix \o Get(env.MCP_BEARER_TOKEN))]_vars

\* C28: with the login gate configured, a form submission to a document path
\* that carries no valid session cookie and is not throttled leaves its own
\* address's counter one above the count of the running window (0 when no
\* window runs), whether the gate answers invalid input, wrong credentials or
\* a redirect; a throttled submission, a GET or HEAD request and a request
\* with a valid session cookie leave every counter and every window end as
\* they were; and no request changes the counter or the window end of another
\* address
SubmissionCountedOnce ==
    LoginConfigured =>
        \A r \in DocRequests :
            LET out == Pipeline(r)
                c == r.client
                before == StorageGet(storage, expirations, c, clock).storage[c]
                counted == /\ r.method = "POST"
                           /\ r.auth_token # env.DOCUMENTS_TOKEN
                           /\ before < RateLimitAmount
            IN  /\ counted => out.storage[c] = before + 1
                /\ ~counted => /\ out.storage = storage
                               /\ out.expirations = expirations
                /\ \A o \in Clients \ {c} : /\ out.storage[o] = storage[o]
                                            /\ out.expirations[o] = expirations[o]

\* C28 witness: a login has just succeeded as the second submission counted
\* for its address while the other address has made three
SecondSubmissionCountedBesideThree ==
    /\ LoginConfigured
    /\ resp.status = 302
    /\ \E c \in Clients : /\ storage[c] = 2
                          /\ \A o \in Clients \ {c} : storage[o] = RateLimitAmount

-----------------------------------------------------------------------------
(* Claims about the lookup caches *)

\* C6 as stated: two successive returns of one kind of list whose calls were
\* made within 900 seconds of each other come from one upstream call, and two
\* made more than 900 seconds apart come from two.
CallsWithinTtlShareOneFetch ==
    \A n \in Kinds :
        prevRet[n].at >= 0 =>
            LET apart == IF lastRet[n].at >= prevRet[n].at
                         THEN lastRet[n].at - prevRet[n].at
                         ELSE prevRet[n].at - lastRet[n].at
                same == /\ lastRet[n].slot = prevRet[n].slot
                        /\ lastRet[n].fetch = prevRet[n].fetch
            IN  /\ apart <= TTL => same
                /\ apart > TTL => ~same

\* C6, amended: a call made less than 900 seconds after its fetch function's
\* latest result was stored is answered with that result and makes no
\* upstream call; a call made more than 900 seconds after it is not answered
\* from the cache: it makes one upstream call or awaits the one in flight.
CallWithinTtlOfStoreIsServed ==
    /\ (call.age >= 0 /\ call.age < TTL) =>
            /\ call.found = "hit"
            /\ call.fetch = call.kept
            /\ call.fetches = 0
    /\ call.age > TTL =>
            /\ call.found \in {"miss", "joined"}
            /\ call.fetch > call.kept
            /\ call.found = "miss" => call.fetches = 1

\* a list was fetched, served again from the cache less than 900 seconds
\* later, and fetched anew by a call made after the entry had expired
RefetchedAfterTtl ==
    /\ call.age > TTL
    /\ call.found = "miss"
    /\ call.fetch = 2
    /\ prevRet[KindOf[call.slot]] = [at |-> 0, slot |-> call.slot, fetch |-> 1]
    /\ lastRet[KindOf[call.slot]].fetch = 1
    /\ lastRet[KindOf[call.slot]].at \in 1..(TTL - 1)

\* C7: no entry is served after its expiry, which is 900 seconds after its
\* result was stored; a call that finds the entry expired starts one fetch,
\* no fetch function ever has two fetches in flight, and the fetched result
\* becomes the entry, with an expiry 900 seconds after it was stored.
NeverServedPastExpiry ==
    /\ ret.outcome = "hit" => ret.now <= ret.expiry
    /\ (call.prior = "absent" /\ call.age >= 0) =>
            call.found = "miss" /\ call.fetches = 1
    /\ \A k \in Slots :
        /\ inflight[k] <= 1
        /\ cache[k].status = "cached" =>
            /\ cache[k].expiry = cache[k].since + TTL
            /\ cache[k].fetch = stored[k].fetch
            /\ cache[k].since = stored[k].at
            /\ clock <= cache[k].expiry

\* a call found its entry expired and its fetch has replaced the entry
ExpiredEntryReplaced ==
    /\ call.prior = "absent"
    /\ call.age >= TTL
    /\ ret.outcome = "fetched"
    /\ ret.slot = call.slot
    /\ ret.fetch = call.fetch
    /\ cache[call.slot].status = "cached"
    /\ cache[call.slot].fetch = call.fetch
    /\ cache[call.slot].expiry = clock + TTL
    /\ upstreamCalls[call.slot] = call.kept + 1

\* C8: an error is returned only to the calls that awaited the fetch that
\* failed; the failed fetch leaves no value in the cache, and the next call
\* starts a new fetch.
FailureIsNotCached ==
    /\ ret.outcome = "error" => ret.upstream
    /\ call.prior = "failed" => call.found = "miss" /\ call.fetches = 1
    /\ \A k \in Slots :
        cache[k].status = "failed" =>
            /\ stored[k].fetch < cache[k].fetch
            /\ ret.slot = k => (ret.outcome = "error" /\ ret.fetch = cache[k].fetch)

\* a fetch failed, its caller got the error, and the next call fetched anew
RetriedAfterFailure ==
    /\ call.prior = "failed"
    /\ call.found = "miss"
    /\ ret.outcome = "error"
    /\ ret.slot = call.slot
    /\ call.fetch = ret.fetch + 1
    /\ cache[call.slot].status = "pending"

\* C20 as stated: there is no single flight.  An invocation that reads a slot
\* holding no value, be it empty, expired or still being fetched for an
\* earlier invocation, starts an upstream fetch of its own, so that two
\* fetches of one slot are in flight together.
EmptySlotReadStartsFetch ==
    (call.slot # "" /\ call.prior # "cached") => call.fetches = 1

\* C20, amended: at most one fetch of a fetch function is in flight; an
\* invocation that finds the slot's fetch pending starts none and awaits that
\* one, an upstream fetch is started only by an invocation that finds no
\* pending entry, and the slot is written once per fetch.
SecondCallerJoinsPendingFetch ==
    /\ \A k \in Slots :
          /\ inflight[k] <= 1
          /\ inflight[k] = 1 <=> cache[k].status = "pending"
          /\ cache[k].status = "pending" => cache[k].fetch = upstreamCalls[k]
          /\ stored[k].fetch <= upstreamCalls[k]
          /\ waiting[k] # {} => inflight[k] = 1
    /\ call.found = "joined" => call.prior = "pending" /\ call.fetches = 0
    /\ call.found = "miss" => call.prior # "pending" /\ call.fetches = 1
    /\ call.prior = "pending" => call.found = "joined"

\* a second invocation found the fetch of its slot pending, joined it, and
\* one fetch is in flight for the two
SecondCallerJoined ==
    /\ nCalls = 2
    /\ call.found = "joined"
    /\ inflight[call.slot] = 1
    /\ upstreamCalls[call.slot] = 1
    /\ call.fetch = cache[call.slot].fetch

\* C27: the tools that read the offers list are served from one cache slot:
\* any two of their invocations that return within 900 seconds of each other
\* were answered from the same slot, the slot of one fetch function
OffersServedFromOneSlot ==
    LET last == lastRet["offers"]
        prev == prevRet["offers"]
    IN  (prev.at >= 0 /\ last.at - prev.at < TTL) => last.slot = prev.slot

-----------------------------------------------------------------------------
(* Claims about the compiled filters *)

\* the family a clause names
FamilyOf(c) ==
    IF c.field # "" THEN c.field
    ELSE IF c.filter \in {"jobs", "disqualifies", "tags", "skills", "talent_pools", "stages"}
         THEN c.filter
         ELSE "custom field"

\* the places of the fixed order that a clause of search filter sf can hold
PlacesOf(c, sf) ==
    {n \in 1..11 :
        CASE n = 1 -> c.filter = "jobs" /\ c.attr = "id" /\ c.op = "in"
          [] n = 2 -> c.filter = "disqualifies" /\ c.attr = "reason" /\ c.op = "in"
          [] n = 3 -> c.filter = "disqualifies" /\ c.attr = "reason"
                      /\ c.op \in {"has_any", "has_none"}
          [] n = 4 -> c.filter = "tags" /\ c.attr = "id" /\ c.op = "in"
          [] n = 5 -> c.filter = "skills" /\ c.attr = "text"
          [] n = 6 -> c.filter = "talent_pools" /\ c.attr = "id"
          [] n = 7 -> c.filter = "stages" /\ c.attr = ""
                      /\ c.op \in {"has_any", "has_none"} /\ sf.has_stage # None
          [] n = 8 -> c.filter = "stages" /\ c.attr = "name" /\ c.op = "in"
          [] n = 9 -> c.field = "gdpr_expires_at"
          [] n = 10 -> c.field = "created_at"
          [] n = 11 -> c.field = "" /\ c.attr = "" /\ sf.custom_fields = Some(c.filter)
                       /\ sf.custom_fields_combiner = Some(c.op)}

\* C9 as stated: no two compiled clauses are of one family.
AtMostOneClausePerFamily ==
    (compiled.done /\ compiled.ok) =>
        \A i, j \in DOMAIN compiled.filters :
            i # j => FamilyOf(compiled.filters[i]) # FamilyOf(compiled.filters[j])

\* C9, amended: at most one clause per criterion of the eleven, hence at
\* most one clause of each built-in shape, two for the shape shared by the
\* stage-presence and the custom-field criterion, only one of which names a
\* key other than stages, and eleven clauses at most.
AtMostOneClausePerCriterion ==
    (compiled.done /\ compiled.ok) =>
        LET fs == compiled.filters
            bare == {i \in DOMAIN fs : fs[i].field = "" /\ fs[i].attr = ""}
        IN  /\ \A n \in (1..10) \ {7} :
                  Cardinality({i \in DOMAIN fs : n \in PlacesOf(fs[i], search_filter)}) <= 1
            /\ Cardinality(bare) <= 2
            /\ Cardinality({i \in bare : fs[i].filter # "stages"}) <= 1
            /\ \A i \in DOMAIN fs : PlacesOf(fs[i], search_filter) # {}
            /\ Len(fs) <= 11

\* both disqualifies clauses were compiled, and a stages clause after them
TwoDisqualifiesClauses ==
    /\ compiled.done /\ compiled.ok
    /\ Len(compiled.filters) = 3
    /\ PlacesOf(compiled.filters[1], search_filter) = {2}
    /\ PlacesOf(compiled.filters[2], search_filter) = {3}
    /\ FamilyOf(compiled.filters[3]) = "stages"

\* whether the clauses from the i-th on can take increasing places after last
RECURSIVE Placed(_, _, _, _)
Placed(fs, i, last, sf) ==
    IF i > Len(fs) THEN TRUE
    ELSE LET free == {n \in PlacesOf(fs[i], sf) : n > last}
         IN  /\ free # {}
             /\ Placed(fs, i + 1, CHOOSE n \in free : \A m \in free : n <= m, sf)

\* C10: the compiled clauses take increasing places in the fixed order, and
\* the same fields given in any other order compile to the same result.
ClausesInFixedOrder ==
    compiled.done =>
        /\ compiled.ok => Placed(compiled.filters, 1, 0, search_filter)
        /\ \A p \in Permutations(1..Len(args)) :
              Compile(Validate([i \in 1..Len(args) |-> args[p[i]]]), zone)
                = [ok |-> compiled.ok, clauses |-> compiled.filters,
                   offending |-> compiled.offending]

\* three fields given in the reverse of the fixed order were compiled
GivenInReverseOrder ==
    /\ compiled.done /\ compiled.ok
    /\ Len(args) = 3
    /\ args[1][1] = "created_from"
    /\ args[2][1] = "on_stage"
    /\ args[3][1] = "offer_ids"
    /\ Len(compiled.filters) = 3
    /\ compiled.filters[1].filter = "jobs"
    /\ compiled.filters[2].attr = "name"
    /\ compiled.filters[3].field = "created_at"

\* C11 as stated: a compiled search holds the clause of each of the eleven
\* criteria exactly when that criterion is present, a null field and an
\* empty list both being absent (skills, talent pools and the custom field
\* taken with their combiner); the presence flags give has_any for true and
\* has_none for false; nothing present compiles to the empty list.
ClauseExactlyWhenPresent ==
    (compiled.done /\ compiled.ok) =>
        LET sf == search_filter
            fs == compiled.filters
            present == [n \in 1..11 |->
                CASE n = 1 -> NonEmpty(sf.offer_ids)
                  [] n = 2 -> NonEmpty(sf.disqualify_reasons)
                  [] n = 3 -> sf.is_disqualified # None
                  [] n = 4 -> NonEmpty(sf.candidate_tag_ids)
                  [] n = 5 -> NonEmpty(sf.skills) /\ sf.skills_combiner # None
                  [] n = 6 -> NonEmpty(sf.talent_pools) /\ sf.talent_pools_combiner # None
                  [] n = 7 -> sf.has_stage # None
                  [] n = 8 -> NonEmpty(sf.on_stage)
                  [] n = 9 -> NonEmpty(sf.gdpr_expires_from) \/ NonEmpty(sf.gdpr_expires_to)
                  [] n = 10 -> NonEmpty(sf.created_from) \/ NonEmpty(sf.created_to)
                  [] n = 11 -> NonBlank(sf.custom_fields) /\ sf.custom_fields_combiner # None]
            at(n) == {i \in DOMAIN fs : n \in PlacesOf(fs[i], sf)}
        IN  /\ \A n \in 1..11 : (at(n) # {}) <=> present[n]
            /\ \A i \in at(3) :
                  fs[i].op = (IF Get(sf.is_disqualified) THEN "has_any" ELSE "has_none")
            /\ sf.has_stage # None =>
                  \E i \in at(7) :
                     fs[i].op = (IF Get(sf.has_stage) THEN "has_any" ELSE "has_none")
            /\ (\A n \in 1..11 : ~present[n]) => fs = <<>>

\* C12 as stated: the clause of each date window carries gte exactly when the
\* window's own from field is present and lte exactly when its own to field
\* is present, each the conversion of that same field, and a search fails
\* only on a present date that does not convert; the fields of the other
\* window have no part in it.
WindowBoundsFromOwnFields ==
    compiled.done =>
        LET sf == search_filter
            fs == compiled.filters
            bound(o) == IF NonEmpty(o) THEN Some(iso_to_unix(o, zone).value) ELSE None
            own(name, from, to) ==
                \A i \in DOMAIN fs : fs[i].field = name =>
                    fs[i].gte = bound(from) /\ fs[i].lte = bound(to)
            dates == {sf.gdpr_expires_from, sf.gdpr_expires_to,
                      sf.created_from, sf.created_to}
        IN  IF compiled.ok
            THEN /\ own("gdpr_expires_at", sf.gdpr_expires_from, sf.gdpr_expires_to)
                 /\ own("created_at", sf.created_from, sf.created_to)
            ELSE \E o \in dates :
                    NonEmpty(o) /\ ~iso_to_unix(o, zone).ok /\ compiled.offending = o

\* C13: a call whose search_filter gives a limit above 10 000 ends in a
\* validation error with no request sent, a call giving any other limit of
\* the model, 10 000 included, builds the CandidateSearchFilter, and every
\* request sent carries the limit of that filter, never above 10 000.
LimitNeverAboveCap ==
    sent.outcome # "none" =>
        LET given == {args[i][2] : i \in {j \in 1..Len(args) : args[j][1] = "limit"}}
        IN  /\ (\E v \in given : v > 10000) <=> sent.outcome = "validation error"
            /\ (\E v \in given : v > 10000) => sent.params = None /\ ~compiled.done
            /\ (\A v \in given : v <= 10000) =>
                  compiled.done /\ \A v \in given : search_filter.limit = v
            /\ sent.params # None =>
                  /\ Get(sent.params).limit = search_filter.limit
                  /\ Get(sent.params).limit <= 10000

\* a search with limit 10 000 was sent, with that very limit
SearchSentAtCap ==
    /\ sent.outcome = "request"
    /\ \E i \in 1..Len(args) : args[i] = <<"limit", 10000>>
    /\ Get(sent.params).limit = 10000
    /\ Len(Get(sent.params).filters_json) = 1

-----------------------------------------------------------------------------
(* Claims about iso_to_unix *)

\* C14: for a string YYYY-MM-DDTHH:MM:SS followed by Z or by +HH:MM or
\* -HH:MM that names a real date, time of day and offset, the conversion is
\* the number of seconds from 1970-01-01T00:00:00Z to that instant, counted
\* day by day, Z standing for +00:00, and 2025-05-20T12:30:00Z gives
\* 1747744200; a string whose date, time or suffix is not of that kind makes
\* the call fail with the error that names the string (nothing is said of a
\* separator other than T or of a string without suffix).
IsoToUnixIsEpochSeconds ==
    (sent.outcome # "none" /\ Len(args) = 1 /\ args[1][1] = "created_from") =>
        LET s == Get(args[1][2])
            suffix == SubSeq(s, 20, Len(s))
            y == Num(s, 1, 4)
            m == Num(s, 6, 2)
            d == Num(s, 9, 2)
            wallOk == /\ IsDigits(s, 1, 4) /\ s[5] = "-" /\ IsDigits(s, 6, 2)
                      /\ s[8] = "-" /\ IsDigits(s, 9, 2)
                      /\ IsDigits(s, 12, 2) /\ s[14] = ":" /\ IsDigits(s, 15, 2)
                      /\ s[17] = ":" /\ IsDigits(s, 18, 2)
                      /\ y >= 1 /\ m \in 1..12 /\ d \in 1..DaysInMonth(y, m)
                      /\ Num(s, 12, 2) <= 23 /\ Num(s, 15, 2) <= 59 /\ Num(s, 18, 2) <= 59
            offsetOk == /\ Len(suffix) = 6 /\ suffix[1] \in {"+", "-"}
                        /\ IsDigits(suffix, 2, 2) /\ suffix[4] = ":" /\ IsDigits(suffix, 5, 2)
                        /\ Num(suffix, 2, 2) <= 23 /\ Num(suffix, 5, 2) <= 59
            offset == IF suffix = <<"Z">> THEN 0
                      ELSE (IF suffix[1] = "-" THEN -1 ELSE 1)
                           * (Num(suffix, 2, 2) * 3600 + Num(suffix, 5, 2) * 60)
            days == (IF y >= 1970
                     THEN 365 * (y - 1970) + Cardinality({k \in 1970..(y - 1) : IsLeap(k)})
                     ELSE -(365 * (1970 - y) + Cardinality({k \in y..1969 : IsLeap(k)})))
                    + Cardinality({<<k, j>> \in (1..12) \X (1..31) :
                                      k < m /\ j <= DaysInMonth(y, k)})
                    + d - 1
            instant == days * 86400 + Num(s, 12, 2) * 3600 + Num(s, 15, 2) * 60
                       + Num(s, 18, 2) - offset
        IN  /\ (wallOk /\ s[11] = "T" /\ (suffix = <<"Z">> \/ offsetOk)) =>
                  /\ sent.outcome = "request"
                  /\ compiled.filters = <<Clause("", "created_at", "", "", <<>>,
                                                 Some(instant), None)>>
            /\ (~wallOk \/ ~(suffix \in {<<>>, <<"Z">>} \/ offsetOk)) =>
                  /\ sent.outcome = "conversion error"
                  /\ compiled.offending = Some(s)
            /\ s = DateZ => compiled.filters[1].gte = Some(1747744200)

\* the conversion of 2024-02-29T23:59:59-05:30 was sent as the lower bound
LeapDayOffsetConverted ==
    /\ sent.outcome = "request"
    /\ args = <<<<"created_from",
                  Some(<<"2", "0", "2", "4", "-", "0", "2", "-", "2", "9", "T", "2", "3", ":", "5", "9", ":", "5", "9", "-", "0", "5", ":", "3", "0">>)>>>>
    /\ compiled.filters[1].gte = Some(1709270999)

\* C15 as stated: a search whose disqualify_reasons holds a name that is not
\* among the entries of the disqualify-reasons lookup ends in a validation
\* error and sends no request.
UnknownNameFailsSearch ==
    (sent.outcome # "none" /\ compiled.done /\ NonEmpty(search_filter.disqualify_reasons)) =>
        LET names == Get(search_filter.disqualify_reasons)
        IN  (\E i \in DOMAIN names : names[i] \notin DisqualifyReasonNames) =>
                sent.outcome = "validation error" /\ sent.params = None

-----------------------------------------------------------------------------
(* Claims about concurrent form submissions *)

\* C29: however the coroutines of concurrent form submissions interleave, at
\* most 3 submissions of one client address are counted in one limiter window
\* and go on to credential processing: no submission is suspended between
\* the limiter's test and its hit, so no two pass the test on one free slot
AtMostThreeAdmittedPerWindow ==
    /\ \A i \in 1..MaxSubs : subs[i].at # "tested"
    /\ \A c \in Clients :
          \A i \in 1..MaxSubs :
              Cardinality({j \in 1..MaxSubs : /\ subs[j].client = c
                                        /\ subs[j].at \in {"form", "processed"}
                                        /\ subs[j].window = subs[i].window})
                  <= RateLimitAmount

\* C29 witness: three submissions of one address are suspended together at
\* request.form(), counted in one window, and two more that arrived in that
\* window were throttled
ThreeSuspendedTwoThrottled ==
    \E c \in Clients :
        /\ Cardinality({j \in 1..MaxSubs : /\ subs[j].client = c
                                     /\ subs[j].at = "form"
                                     /\ subs[j].window = expirations[c]}) = 3
        /\ Cardinality({j \in 1..MaxSubs : subs[j].client = c /\ subs[j].at = "throttled"}) = 2
        /\ clock < expirations[c]

-----------------------------------------------------------------------------
(* Claims about the tools that read the remote API *)

\* C21: when get_candidates_details or get_offers_details returns, there is
\* one entry for each id given; with an empty field list the entry is the
\* whole raw resource, and with a non-empty field list it holds exactly the
\* requested keys that the raw resource has, each with its raw value, and no
\* entry for a requested key the resource lacks
DetailEntriesAsRequested ==
    (toolOut.tool \in {"get_candidates_details", "get_offers_details"}
        /\ toolOut.res.ok) =>
        LET ofCandidates == toolOut.tool = "get_candidates_details"
            ids == toolOut.args.ids
            fields == toolOut.args.fields
            value == toolOut.res.value
            Raw(id) == IF ofCandidates
                       THEN DictGet(remote[<<"/candidates/", id>>].json, "candidate", <<>>)
                       ELSE DictGet(remote[<<"/offers/", id>>].json, "offer", <<>>)
            Entry(i) == IF ofCandidates THEN value[i] ELSE value[ids[i]]
        IN  /\ IF ofCandidates THEN Len(value) = Len(ids)
               ELSE DOMAIN value = {ids[i] : i \in DOMAIN ids}
            /\ \A i \in DOMAIN ids :
                  IF fields = <<>> THEN Entry(i) = Raw(ids[i])
                  ELSE /\ DOMAIN Entry(i) = {fields[j] : j \in DOMAIN fields}
                                                \cap DOMAIN Raw(ids[i])
                       /\ \A f \in DOMAIN Entry(i) : Entry(i)[f] = Raw(ids[i])[f]

\* C22: whatever list of talent pools the remote API returns, list_talent_pools
\* gives for scope "all" every entry, for "archived" exactly the entries whose
\* status equals "archived" and for "not_archived" exactly the others, each
\* projected to id, title and status and in the remote order, so that the
\* archived and not_archived results partition the "all" result
TalentPoolsPartitionedByStatus ==
    LET fetched == DictGet(remote[PathTalentPools].json, "talent_pools", <<>>)
        projected == [i \in DOMAIN fetched |->
                         [id |-> fetched[i].id, title |-> fetched[i].title,
                          status |-> fetched[i].status]]
        IsArchived(e) == e.status = "archived"
        IsNotArchived(e) == e.status # "archived"
        Expected(scope) ==
            CASE scope = "all" -> projected
              [] scope = "archived" -> SelectSeq(projected, IsArchived)
              [] scope = "not_archived" -> SelectSeq(projected, IsNotArchived)
    IN  remote[PathTalentPools].status_code \in 200..299 =>
            /\ \A scope \in Scopes :
                  /\ list_talent_pools(scope).ok
                  /\ list_talent_pools(scope).value = Expected(scope)
            /\ Len(list_talent_pools("archived").value)
                   + Len(list_talent_pools("not_archived").value)
                   = Len(list_talent_pools("all").value)
            /\ (toolOut.tool = "list_talent_pools" /\ toolOut.args.scope \in Scopes) =>
                  /\ toolOut.res.ok
                  /\ toolOut.res.value = Expected(toolOut.args.scope)

\* C22 witness: list_talent_pools(scope="archived") has returned the two
\* archived pools of four, leaving out one whose status is "Archived"
ArchivedPoolsReturned ==
    /\ toolOut.tool = "list_talent_pools"
    /\ toolOut.args.scope = "archived"
    /\ toolOut.res.ok
    /\ Len(toolOut.res.value) = 2
    /\ Len(DictGet(remote[PathTalentPools].json, "talent_pools", <<>>)) = 4
    /\ \A i \in DOMAIN toolOut.res.value :
          DOMAIN toolOut.res.value[i] = {"id", "title", "status"}

\* C23: search_candidate_by_query called with a non-empty query and
\* search_name = False returns only candidates whose name equals the query
QueryWithoutSearchNameMatchesExactly ==
    (/\ toolOut.tool = "search_candidate_by_query"
     /\ ~toolOut.args.search_name
     /\ toolOut.args.query # ""
     /\ toolOut.res.ok) =>
        \A i \in DOMAIN toolOut.res.value :
            toolOut.res.value[i].name = toolOut.args.query

\* C25: a tool call makes each of its GETs once and stops at the first answer
\* outside 2xx: that GET is the last one made, the call fails with an error
\* carrying the answer's status code and body and returns nothing of what it
\* had gathered; a detail call makes at most one GET per id given, in the
\* order given, and the other tools make at most one
UpstreamErrorSurfacedOnce ==
    toolOut.tool # "" =>
        LET res == toolOut.res
            gets == res.gets
            answer(i) == remote[gets[i].path]
            Failed(i) == answer(i).status_code \notin 200..299
            prefix == IF toolOut.tool = "get_candidates_details"
                      THEN "/candidates/" ELSE "/offers/"
        IN  /\ \A i \in DOMAIN gets :
                  Failed(i) => /\ i = Len(gets)
                               /\ ~res.ok
                               /\ res.error.kind = "Recruitee API failed"
                               /\ res.error.status_code = answer(i).status_code
                               /\ res.error.text = answer(i).text
                               /\ res.value = <<>>
            /\ (\A i \in DOMAIN gets : ~Failed(i)) =>
                  res.ok \/ (gets = <<>> /\ res.error.kind # "Recruitee API failed")
            /\ IF toolOut.tool \in {"get_candidates_details", "get_offers_details"}
               THEN /\ Len(gets) <= Len(toolOut.args.ids)
                    /\ \A i \in DOMAIN gets :
                          gets[i].path = <<prefix, toolOut.args.ids[i]>>
                    /\ res.ok => Len(gets) = Len(toolOut.args.ids)
               ELSE Len(gets) <= 1

\* C25 witness: get_candidates_details(["1", "2"]) fetched candidate 1, got
\* 503 for candidate 2 and failed with that status and body after two GETs
SecondDetailFetchFailed ==
    /\ toolOut.tool = "get_candidates_details"
    /\ toolOut.args.ids = <<"1", "2">>
    /\ remote[<<"/candidates/", "1">>].status_code = 200
    /\ ~toolOut.res.ok
    /\ toolOut.res.error.status_code = 503
    /\ toolOut.res.error.text = "busy"
    /\ Len(toolOut.res.gets) = 2

-----------------------------------------------------------------------------
(* Claims about markdown_to_url *)

\* C30: any two successful markdown_to_url invocations have returned distinct
\* URLs, every returned URL still names a file holding the page rendered from
\* the input it was returned for, and the files are those of the successful
\* invocations: an empty input or an unset base URL has written none
DocumentUrlsDistinctAndKept ==
    /\ \A i, j \in DOMAIN issued : i # j => issued[i].url # issued[j].url
    /\ \A i \in DOMAIN issued :
          /\ issued[i].filename \in DOMAIN files
          /\ files[issued[i].filename] = [rendered |-> issued[i].markdown_str]
    /\ DOMAIN files = {issued[i].filename : i \in DOMAIN issued}
    /\ ~Truthy(BASE_DEPLOY_URL) => DOMAIN files = {}

-----------------------------------------------------------------------------
(* Claims about the Accept header *)

\* C24: under the streamable-http launch, whatever Accept header the client
\* sends, the MCP handler receives one that lists application/json and
\* text/event-stream, keeps every entry of the client with its parameters,
\* and gains a required media type only where the client named none
\* (compared without case and without parameters); the document handler
\* receives the header exactly as the client sent it
AcceptCompletedOnMcpPathOnly ==
    LET asked == IF Truthy(accepted.sent) THEN Parts(Get(accepted.sent))
                ELSE <<>>
        Type(e) == lower(Strip(Head(Split(e, ";"))))
        Required == {REQUIRED_MEDIA_TYPES[k] : k \in 1..Len(REQUIRED_MEDIA_TYPES)}
        Named(seq, m) == {i \in 1..Len(seq) : Type(seq[i]) = m}
    IN  /\ accepted.by = "tool" =>
            /\ accepted.received # None
            /\ LET got == Parts(Get(accepted.received))
               IN  /\ \A m \in Required : Named(got, m) # {}
                   /\ \A i \in 1..Len(asked) :
                          Cardinality({j \in 1..Len(got) : got[j] = asked[i]})
                              >= Cardinality({j \in 1..Len(asked) : asked[j] = asked[i]})
                   /\ \A m \in Required :
                          Cardinality(Named(got, m)) =
                              IF Named(asked, m) = {} THEN 1
                              ELSE Cardinality(Named(asked, m))
                   /\ Len(got) = Len(asked)
                          + Cardinality({m \in Required : Named(asked, m) = {}})
        /\ accepted.by = "documents" => accepted.received = accepted.sent

\* a client's Application/JSON with a parameter, beside text/html, has reached
\* the MCP handler with text/event-stream alone added
MixedCaseJsonKeptEventStreamAdded ==
    /\ accepted.by = "tool"
    /\ accepted.sent = Some(<<"A", "p", "p", "l", "i", "c", "a", "t", "i", "o", "n", "/", "J", "S", "O", "N", " ", ";", " ", "q", "=", "0", ".", "5", ",", " ", "t", "e", "x", "t", "/", "h", "t", "m", "l">>)
    /\ accepted.received = Some(
        <<"A", "p", "p", "l", "i", "c", "a", "t", "i", "o", "n", "/", "J", "S", "O", "N", " ", ";", " ", "q", "=", "0", ".", "5", ",", " ", "t", "e", "x", "t", "/", "h", "t", "m", "l", ",", " ", "t", "e", "x", "t", "/", "e", "v", "e", "n", "t", "-", "s", "t", "r", "e", "a", "m">>)

====
